---------------------------- MODULE Spec2Model ----------------------------
(***************************************************************************)
(* Model of the particle background of the portfolio site (src/js/main.js, *)
(* class ParticleSystem and the two places that construct it).             *)
(*                                                                         *)
(* Numbers.  JavaScript numbers are modelled in fixed point: a length,     *)
(* velocity or opacity v is the integer v * Scale.  A product with a       *)
(* decimal constant is rounded to the nearest unit (RoundDiv), as a        *)
(* floating point operation rounds to the nearest representable value.     *)
(* Math.random() is a pseudo random stream (NextRand) whose seed is chosen *)
(* in Init; a draw r stands for the number r / 1024 in [0, 1).             *)
(***************************************************************************)
EXTENDS Integers, Sequences, FiniteSets, TLC

\* ------------------------------------------------------------------ bounds
\* Units per pixel (and per unit of opacity) of the fixed point numbers.
Scale == 300
\* Frames a behaviour of the field scenario may run.
MaxFrames == 4
\* Pointer, resize and visibility events a behaviour may deliver.
MaxEvents == 2
\* Frames a behaviour of the sustained attraction scenario may run.
AttractFrames == 230
\* Pixels by which the tracking pointer leads the first particle.
Lead == 50
\* Bursts a behaviour of the explosion scenario may start.
MaxBursts == 2
\* Frame callbacks a behaviour of the explosion scenario may run.
BurstCallbacks == 360
\* Frame callbacks after which the explosion scenario delivers no more clicks.
ClickWindow == 2
\* Frame callbacks a behaviour of the pulse scenario may run.
PulseFrames == 140
\* Frames within which the opacity of a particle must have turned around.
PulseWindow == 65
\* Draws of Math.random() from which the pulse scenario makes its particle:
\* 0 .. PulseSeeds.
PulseSeeds == 11
\* Seeds of Math.random() tried in Init: 0 .. MaxSeed.
MaxSeed == 0
\* Frame callbacks followed in the hide/show scenario.
ShowFrames == 12
\* 'visibilitychange' events of the hide/show scenario (two make a cycle).
MaxShows == 4
\* navigator.hardwareConcurrency when the page of the hint scenario starts.
StartHint == 8
\* Ctrl+T presses and system scheme changes followed in the theme scenarios.
MaxKeys == 3
\* Clicks and resizes followed in the menu scenario.
MaxClicks == 4
\* Submissions of the contact form followed.
MaxSubmits == 4
\* Calls of a debounced or throttled function followed.
MaxCalls == 5

\* ------------------------------------------------------- program constants
LowCount == 30
MidCount == 50
HighCount == 80
MobileWidth == 768
TabletWidth == 1024
LowEndCores == 4
InteractionRadius == 100
maxVel == 2
maxDistance == 120
ExplosionCount == 15
DebounceWait == 250
ThrottleLimit == 10

\* -------------------------------------------------------------- arithmetic
Abs(n) == IF n < 0 THEN -n ELSE n

Max(a, b) == IF a >= b THEN a ELSE b

Min(a, b) == IF a <= b THEN a ELSE b

\* n / d rounded to the nearest integer, halves away from zero (d > 0).
RoundDiv(n, d) ==
  IF n >= 0 THEN (2 * n + d) \div (2 * d) ELSE -((2 * (-n) + d) \div (2 * d))

\* The least integer >= n / d (n >= 0, d > 0).
CeilDiv(n, d) == (n + d - 1) \div d

RECURSIVE SqrtSearch(_, _, _)
\* The largest r in lo .. hi with r * r <= n (lo * lo <= n).
SqrtSearch(n, lo, hi) ==
  IF lo >= hi THEN lo
  ELSE LET mid == (lo + hi + 1) \div 2
       IN  IF mid * mid <= n THEN SqrtSearch(n, mid, hi)
           ELSE SqrtSearch(n, lo, mid - 1)

\* Math.sqrt(dx * dx + dy * dy) rounded to the nearest unit.  The root lies
\* between max(|dx|, |dy|) and |dx| + |dy|; both |dx| and |dy| are below
\* 32768, so that the sum of the squares is a number the model checker holds.
Hypot(dx, dy) ==
  LET n == dx * dx + dy * dy
      r == SqrtSearch(n, Max(Abs(dx), Abs(dy)), Abs(dx) + Abs(dy))
  IN  IF n - r * r > r THEN r + 1 ELSE r

\* Pixels to units.
Px(p) == p * Scale

\* The fixed point value of the decimal num / den.
Dec(num, den) == (num * Scale) \div den

\* ------------------------------------------------------------ Math.random
\* One step of the pseudo random stream behind Math.random(): a linear
\* congruential generator of full period 1024.
NextRand(r) == (37 * r + 17) % 1024

RECURSIVE PowMod(_)
\* 37^k modulo 36 * 1024.
PowMod(k) ==
  IF k = 0 THEN 1
  ELSE LET h == PowMod(k \div 2)
           sq == (h * h) % 36864
       IN  IF k % 2 = 1 THEN (sq * 37) % 36864 ELSE sq

\* The state of the stream k draws after state r: NextRand applied k times,
\* in closed form (37^k * r + 17 * (37^k - 1) / 36 modulo 1024).
RandSkip(r, k) ==
  LET pw == PowMod(k)
  IN  ((pw % 1024) * r + 17 * (((pw - 1) \div 36) % 1024)) % 1024

\* Math.random() * range, for a draw r: a value in [0, range).
RandTimes(r, range) == (r * range) \div 1024

\* ------------------------------------------------------- the null pointer
\* A nullable number is <<>> (null) or <<v>>.
NULL == <<>>

NoMouse == [x |-> NULL, y |-> NULL]

\* ------------------------------------------------------------- particles
\* this.colors has six entries; a colour is its index 0 .. 5.
NumColors == 6

\* getParticleCount(): the tier for a viewport width and a concurrency hint
\* (hint 0 stands for navigator.hardwareConcurrency being undefined or 0,
\* which is falsy and so never low end).
getParticleCount(width, cores) ==
  LET isMobile == width < MobileWidth
      isLowEnd == cores # 0 /\ cores < LowEndCores
  IN  IF isMobile \/ isLowEnd THEN LowCount
      ELSE IF width < TabletWidth THEN MidCount
      ELSE HighCount

\* The object literal pushed by createParticles, from eight successive draws
\* r1 .. r8 of Math.random(), the first being NextRand(r).
NewParticle(r, width, height) ==
  LET r1 == NextRand(r)
      r2 == NextRand(r1)
      r3 == NextRand(r2)
      r4 == NextRand(r3)
      r5 == NextRand(r4)
      r6 == NextRand(r5)
      r7 == NextRand(r6)
      r8 == NextRand(r7)
  IN  [ x       |-> RandTimes(r1, Px(width)),
        y       |-> RandTimes(r2, Px(height)),
        vx      |-> RoundDiv((r3 - 512) * Scale, 2048),
        vy      |-> RoundDiv((r4 - 512) * Scale, 2048),
        size    |-> RandTimes(r5, 3 * Scale) + Scale,
        color   |-> RandTimes(r6, NumColors),
        opacity |-> RandTimes(r7, Dec(5, 10)) + Dec(3, 10),
        pulse   |-> RandTimes(r8, Dec(2, 100)) + Dec(1, 100) ]

\* createParticles(): count particles for a width x height canvas, drawn
\* from the random stream in state r, eight draws a particle.
createParticles(count, r, width, height) ==
  [i \in 1 .. count |-> NewParticle(RandSkip(r, 8 * (i - 1)), width, height)]

\* The state of Math.random() after createParticles has pushed count particles.
RandAfter(count, r) == RandSkip(r, 8 * count)

\* ---- one particle of updateParticles ----
\* A pulse effect that holds the opacity at the bound it reaches.
PulseClampStuck(p) ==
  [ opacity |-> Max(Dec(2, 10), Min(Dec(8, 10), p.opacity + p.pulse)),
    pulse   |-> p.pulse ]

\* The pulse effect without its change of direction.
PulseNoFlip(p) == [opacity |-> p.opacity + p.pulse, pulse |-> p.pulse]

\* "Pulse effect": the new opacity and pulse.
PulseStep(p) ==
  LET o == p.opacity + p.pulse
  IN  [ opacity |-> o,
        pulse   |-> IF o > Dec(8, 10) \/ o < Dec(2, 10) THEN -p.pulse ELSE p.pulse ]

\* The wrap without its second if.
WrapLowOnly(v, limit) == IF v < 0 THEN limit ELSE v

\* "Wrap around edges" on one axis: the two ifs, in order.
Wrap(v, limit) ==
  LET a == IF v < 0 THEN limit ELSE v
  IN  IF a > limit THEN 0 ELSE a

\* Math.max(-maxVel, Math.min(maxVel, v)).
Clamp(v) == Max(-Px(maxVel), Min(Px(maxVel), v))

\* Whether the pointer at offset (dx, dy) is within the interaction radius:
\* Math.sqrt(dx * dx + dy * dy) < 100.
InRadius(dx, dy) ==
  /\ Abs(dx) < Px(InteractionRadius)
  /\ Abs(dy) < Px(InteractionRadius)
  /\ dx * dx < Px(InteractionRadius) * Px(InteractionRadius) - dy * dy

\* d * force * 0.001 with force = (100 - distance) / 100.
Pull(d, distance) ==
  RoundDiv(d * (Px(InteractionRadius) - distance), Px(InteractionRadius) * 1000)

\* No limit on the velocity.
NoLimit(v) == v

\* "Limit velocity".
LimitVelocity(v) == Clamp(v)

\* "Mouse interaction": the velocity (vx, vy) of a particle at (x, y).
MouseInteraction(x, y, vx, vy, ms) ==
  IF ms.x # NULL /\ ms.y # NULL
  THEN LET dx == Px(ms.x[1]) - x
           dy == Px(ms.y[1]) - y
       IN  IF InRadius(dx, dy)
           THEN LET distance == Hypot(dx, dy)
                IN  [ vx |-> LimitVelocity(vx + Pull(dx, distance)),
                      vy |-> LimitVelocity(vy + Pull(dy, distance)) ]
           ELSE [vx |-> vx, vy |-> vy]
  ELSE [vx |-> vx, vy |-> vy]

\* No friction.
NoFriction(v) == v

\* "Apply friction": v * 0.99.
Friction(v) == RoundDiv(99 * v, 100)

\* The body of the forEach of updateParticles for one particle.
updateParticle(p, ms, width, height) ==
  LET x1 == p.x + p.vx
      y1 == p.y + p.vy
      pl == PulseStep(p)
      x2 == Wrap(x1, Px(width))
      y2 == Wrap(y1, Px(height))
      v  == MouseInteraction(x2, y2, p.vx, p.vy, ms)
  IN  [ x       |-> x2,
        y       |-> y2,
        vx      |-> Friction(v.vx),
        vy      |-> Friction(v.vy),
        size    |-> p.size,
        color   |-> p.color,
        opacity |-> pl.opacity,
        pulse   |-> pl.pulse ]

\* updateParticles(): every particle of the collection, in place.
updateParticles(ps, ms, width, height) ==
  [i \in 1 .. Len(ps) |-> updateParticle(ps[i], ms, width, height)]

\* ---- drawConnections ----
\* distance <= maxDistance for the particles p and q.
ConnectedInclusive(p, q) ==
  LET dx == p.x - q.x
      dy == p.y - q.y
  IN  /\ Abs(dx) <= Px(maxDistance)
      /\ Abs(dy) <= Px(maxDistance)
      /\ dx * dx <= Px(maxDistance) * Px(maxDistance) - dy * dy

\* distance < maxDistance for the particles p and q, distance being
\* Math.sqrt(dx * dx + dy * dy).
Connected(p, q) ==
  LET dx == p.x - q.x
      dy == p.y - q.y
  IN  /\ Abs(dx) < Px(maxDistance)
      /\ Abs(dy) < Px(maxDistance)
      /\ dx * dx < Px(maxDistance) * Px(maxDistance) - dy * dy

\* Math.sqrt(dx * dx + dy * dy) for two connected particles.
Distance(p, q) == Hypot(p.x - q.x, p.y - q.y)

\* (1 - distance / maxDistance) * 0.2.
ConnectionOpacity(distance) ==
  RoundDiv((Px(maxDistance) - distance) * Dec(2, 10), Px(maxDistance))

\* An inner loop that runs over every particle j, not only those after i.
ConnectionsFromAll(ps, i) ==
  { [i |-> i, j |-> j, opacity |-> ConnectionOpacity(Distance(ps[i], ps[j]))] :
    j \in { k \in 1 .. Len(ps) : Connected(ps[i], ps[k]) } }

\* The inner loop of drawConnections for the particle i: the lines stroked
\* to the particles j > i, each with the indices of its two particles and its
\* globalAlpha.
ConnectionsFrom(ps, i) ==
  { [i |-> i, j |-> j, opacity |-> ConnectionOpacity(Distance(ps[i], ps[j]))] :
    j \in { k \in i + 1 .. Len(ps) : Connected(ps[i], ps[k]) } }

\* drawConnections(): the lines stroked.
drawConnections(ps) == UNION { ConnectionsFrom(ps, i) : i \in 1 .. Len(ps) }

\* ------------------------------------------------------------------ state
VARIABLES
  innerWidth,       \* window.innerWidth, in pixels
  innerHeight,      \* window.innerHeight, in pixels
  cores,            \* navigator.hardwareConcurrency (0: undefined)
  reducedMotion,    \* matchMedia('(prefers-reduced-motion: reduce)').matches
  canvasPresent,    \* document.getElementById('particles-canvas') is an element
  contextOk,        \* canvas.getContext('2d') yields a context
  hidden,           \* document.hidden
  focused,          \* the window has the focus
  rng,              \* the state of Math.random()
  canvas,           \* the canvas element: [width, height], in pixels
  built,            \* built[s]: a ParticleSystem object s has been allocated
  particles,        \* particles[s]: this.particles of simulator s
  particleCount,    \* particleCount[s]: this.particleCount
  mouse,            \* mouse[s]: this.mouse
  pauseAnimation,   \* pauseAnimation[s]: this.pauseAnimation (<<>>: undefined)
  listening,        \* listening[s]: the constructor of s has returned
  rafQueue,         \* callbacks handed to requestAnimationFrame, oldest first
  running,          \* the call of animate() in progress, or Idle
  lines,            \* the connection lines on the canvas since its last clearRect
  explosions,       \* explosions[b]: explosionParticles of the b-th burst
  burstFrames,      \* burstFrames[b]: calls of animateExplosion of burst b so far
  boot,             \* how far the page's start-up has come
  enableParticles,  \* PortfolioApp.config.enableParticles
  appListeners,     \* PortfolioApp.setupGlobalEventListeners has run
  clickListener,    \* the click listener of the DOMContentLoaded initializer is set
  log,              \* diagnostics written to the console, oldest first
  errorFallback,    \* the 'Something went wrong' box is shown
  thrown,           \* exceptions thrown so far, oldest first
  lastOp,           \* the step that led to this state: <<name, simulator>>
  prevOp,           \* the step before it
  pendingDraw,      \* pendingDraw[s]: updateParticles calls of s not yet rendered
  clock,            \* requestAnimationFrame callbacks run so far
  events,           \* events delivered so far
  now,              \* the time of the page, in milliseconds
  timers,           \* callbacks handed to setTimeout and not yet run, oldest first
  theme,            \* the ThemeController objects and what they share
  page              \* the other components of the page, one field each

envVars  == <<innerWidth, innerHeight, cores, reducedMotion, canvasPresent, contextOk>>
simVars  == <<built, particles, particleCount, mouse, pauseAnimation, listening>>
bootVars == <<boot, enableParticles, appListeners, clickListener>>
errVars  == <<log, errorFallback, thrown>>
burstVars == <<explosions, burstFrames>>
\* The timers of the page and its components other than the particles.
uiVars == <<now, timers, theme, page>>
\* What no step but a render or a burst touches.
sideVars == <<lines, explosions, burstFrames>>

vars == <<innerWidth, innerHeight, cores, reducedMotion, canvasPresent, contextOk,
          hidden, focused, rng, canvas, built, particles, particleCount, mouse,
          pauseAnimation, listening, rafQueue, running, lines, explosions,
          burstFrames,
          boot, enableParticles, appListeners, clickListener, log, errorFallback,
          thrown, lastOp, prevOp, pendingDraw, clock, events,
          now, timers, theme, page>>

\* The two ParticleSystem objects the page can construct: "app" is
\* PortfolioApp.components.particles, "dom" is the global particleSystem.
SimIds == {"app", "dom"}

Idle == [pc |-> "idle", sim |-> "none", ctor |-> FALSE]

\* The two objects of a kind the page constructs: "app" belongs to
\* PortfolioApp.components, "dom" is the global made by the DOMContentLoaded
\* initializer of the class.
CtlIds == {"app", "dom"}

\* No ThemeController has been constructed: nothing is stored under
\* 'portfolio-theme', document.body has none of the theme classes, the page
\* has a .theme-toggle element and the system prefers a light scheme.
ThemeIdle ==
  [ state         |-> [c \in CtlIds |-> "none"],  \* "none", "ready" or "threw"
    currentTheme  |-> [c \in CtlIds |-> "dark"],
    stored        |-> NULL,          \* localStorage.getItem('portfolio-theme')
    classes       |-> {},            \* the names t with body.classList has t-theme
    transitioning |-> FALSE,         \* body.classList has theme-transitioning
    prefersDark   |-> FALSE,         \* this.prefersDarkScheme.matches
    hasToggle     |-> TRUE,          \* document.querySelector('.theme-toggle')
    keys          |-> 0 ]            \* Ctrl+T presses so far

\* The <li> elements of .nav-menu.
MenuItems == 2

\* No NavigationController has been constructed: the hamburger and the menu
\* are not 'active', document.body.style.overflow is unset and no menu item
\* has an inline opacity.
NavIdle ==
  [ state      |-> [c \in CtlIds |-> "none"],
    isMenuOpen |-> [c \in CtlIds |-> FALSE],
    hamburger  |-> {},               \* this.hamburger.classList
    navMenu    |-> {},               \* this.navMenu.classList
    overflow   |-> "",               \* document.body.style.overflow
    items      |-> [k \in 1 .. MenuItems |-> ""] ]  \* item.style.opacity

\* The names of the required fields of the contact form, in the order of
\* their validation.
RequiredFields == <<"firstName", "lastName", "email", "subject", "message">>

\* The contact form before any submission: the button is enabled and carries
\* its label, no handler is running.
FormIdle ==
  [ pc       |-> "idle",             \* "idle", "fetch" or "json": the await the handler is at
    disabled |-> FALSE,              \* submitButton.disabled
    text     |-> "Send",             \* btnText.textContent
    requests |-> 0,                  \* calls of fetch() so far
    notes    |-> <<>>,               \* showNotification calls so far: their types
    ended    |-> {} ]                \* the ways the handler has ended so far

\* The .typing-text element of the page before any AnimationController is
\* constructed; a text is the sequence of its characters.
TypingIdle ==
  [ state     |-> [c \in CtlIds |-> "none"],
    original  |-> <<>>,              \* element.textContent in the document
    content   |-> <<>>,              \* element.textContent
    speed     |-> 50,                \* data-speed, or 50
    delay     |-> 0,                 \* data-delay, or 0
    text      |-> [c \in CtlIds |-> <<>>],   \* text, as captured by controller c
    i         |-> [c \in CtlIds |-> 0],      \* i of the typeWriter of c
    ticks     |-> [c \in CtlIds |-> 0],      \* calls of typing() of c so far
    intervals |-> 0 ]                \* setInterval calls of blinkCursor(element)

\* The function PortfolioApp.debounce(func, wait) has returned, not yet
\* called.
DebounceIdle ==
  [ timeout  |-> NULL,               \* the closure's timeout: <<timer>> once set
    calls    |-> 0,                  \* calls of the wrapper so far
    lastCall |-> 0,                  \* the time of the latest call
    lastArgs |-> 0,                  \* its arguments
    bursts   |-> 0,                  \* calls that came wait or more after the one before
    invoked  |-> <<>> ]              \* the arguments func was invoked with, in order

\* The functions NavigationController.throttle(func, limit) has returned, one
\* for each controller, not yet called.
ThrottleIdle ==
  [ inThrottle |-> [c \in CtlIds |-> FALSE],
    calls      |-> 0,                        \* 'scroll' events so far
    invoked    |-> [c \in CtlIds |-> <<>>] ] \* the times func of c was invoked at

PageIdle ==
  [ nav |-> NavIdle, form |-> FormIdle, typing |-> TypingIdle,
    debounce |-> DebounceIdle, throttle |-> ThrottleIdle ]

\* The components other than the particles, as the scripts of the page find
\* them.
UiIdle ==
  /\ now = 0
  /\ timers = <<>>
  /\ theme = ThemeIdle
  /\ page = PageIdle

\* A step of the particle simulators leaves the other components alone.
UiUnchanged == UNCHANGED uiVars

\* The particle canvas and the start-up of a page that has loaded its scripts
\* and run none of them.
FieldLoaded(w, h, c, rm, cp, ok, seed) ==
  /\ innerWidth = w
  /\ innerHeight = h
  /\ cores = c
  /\ reducedMotion = rm
  /\ canvasPresent = cp
  /\ contextOk = ok
  /\ hidden = FALSE
  /\ focused = TRUE
  /\ rng = seed
  /\ canvas = [width |-> 300, height |-> 150]
  /\ built = [s \in SimIds |-> FALSE]
  /\ particles = [s \in SimIds |-> <<>>]
  /\ particleCount = [s \in SimIds |-> 0]
  /\ mouse = [s \in SimIds |-> NoMouse]
  /\ pauseAnimation = [s \in SimIds |-> <<>>]
  /\ listening = [s \in SimIds |-> FALSE]
  /\ rafQueue = <<>>
  /\ running = Idle
  /\ lines = {}
  /\ explosions = <<>>
  /\ burstFrames = <<>>
  /\ boot = "load"
  /\ enableParticles = TRUE
  /\ appListeners = FALSE
  /\ clickListener = FALSE
  /\ log = <<>>
  /\ errorFallback = FALSE
  /\ thrown = <<>>
  /\ lastOp = <<"load", "none">>
  /\ prevOp = <<"load", "none">>
  /\ pendingDraw = [s \in SimIds |-> 0]
  /\ clock = 0
  /\ events = 0

\* The state of a page that has loaded its scripts and run none of them.
PageLoaded(w, h, c, rm, cp, ok, seed) ==
  /\ FieldLoaded(w, h, c, rm, cp, ok, seed)
  /\ UiIdle

\* Every action records itself in lastOp.
Did(name, s) ==
  /\ lastOp' = <<name, s>>
  /\ prevOp' = lastOp

\* ---------------------------------------------------------------- start-up
\* An exception no handler catches: the host reports it on the console and
\* dispatches an 'error' event, which PortfolioApp.handleError logs once the
\* application has installed its listeners.
Uncaught(msg) ==
  /\ thrown' = Append(thrown, msg)
  /\ log' = log \o <<"Uncaught TypeError">>
                \o (IF appListeners THEN <<"Application error:">> ELSE <<>>)
  /\ UNCHANGED errorFallback

\* A detectDeviceCapabilities() that does not look at the motion preference.
InitializeAppAnyMotion ==
  /\ boot = "load"
  /\ LET isMobile == innerWidth < MobileWidth
         isLowEnd == cores # 0 /\ cores < LowEndCores
     IN  enableParticles' = IF isLowEnd \/ isMobile THEN FALSE ELSE enableParticles
  /\ boot' = "components"
  /\ UiUnchanged
  /\ Did("InitializeApp", "none")
  /\ UNCHANGED <<envVars, hidden, focused, rng, canvas, simVars, rafQueue, running,
                 sideVars, appListeners, clickListener, errVars, pendingDraw,
                 clock, events>>

\* initializeApp -> new PortfolioApp() -> init() up to its first await:
\* initializeCore() with detectDeviceCapabilities().
InitializeApp ==
  /\ boot = "load"
  /\ LET isMobile == innerWidth < MobileWidth
         isLowEnd == cores # 0 /\ cores < LowEndCores
     IN  enableParticles' = IF isLowEnd \/ isMobile \/ reducedMotion
                            THEN FALSE ELSE enableParticles
  /\ boot' = "components"
  /\ UiUnchanged
  /\ Did("InitializeApp", "none")
  /\ UNCHANGED <<envVars, hidden, focused, rng, canvas, simVars, rafQueue, running,
                 sideVars, appListeners, clickListener, errVars, pendingDraw,
                 clock, events>>

\* new ParticleSystem() up to and including this.init(); its call of
\* this.animate() is left in progress.
Construct(s) ==
  LET n == getParticleCount(innerWidth, cores)
  IN  /\ built' = [built EXCEPT ![s] = TRUE]
      /\ particleCount' = [particleCount EXCEPT ![s] = n]
      /\ mouse' = [mouse EXCEPT ![s] = NoMouse]
      /\ canvas' = [width |-> innerWidth, height |-> innerHeight]
      /\ particles' = [particles EXCEPT
                         ![s] = createParticles(n, rng, innerWidth, innerHeight)]
      /\ rng' = RandAfter(n, rng)
      /\ running' = [pc |-> "update", sim |-> s, ctor |-> TRUE]
      /\ UNCHANGED <<pauseAnimation, listening>>

\* PortfolioApp.initializeComponents(), the part about particles.
InitializeComponents ==
  /\ boot = "components"
  /\ running = Idle
  /\ IF enableParticles /\ canvasPresent
     THEN /\ Construct("app")
          /\ boot' = "appCtor"
     ELSE /\ boot' = "setup"
          /\ UNCHANGED <<simVars, canvas, rng, running>>
  /\ UiUnchanged
  /\ Did("InitializeComponents", "none")
  /\ UNCHANGED <<envVars, hidden, focused, rafQueue, sideVars, enableParticles,
                 appListeners, clickListener, errVars, pendingDraw, clock, events>>

\* The rest of PortfolioApp.init() after initializeComponents() has returned:
\* setupGlobalEventListeners().
FinishInit ==
  /\ boot = "setup"
  /\ running = Idle
  /\ appListeners' = TRUE
  /\ boot' = "domReady"
  /\ UiUnchanged
  /\ Did("FinishInit", "none")
  /\ UNCHANGED <<envVars, hidden, focused, rng, canvas, simVars, rafQueue, running,
                 sideVars, enableParticles, clickListener, errVars, pendingDraw,
                 clock, events>>

\* The DOMContentLoaded listener at the end of main.js.
DOMContentLoaded ==
  /\ boot = "domReady"
  /\ running = Idle
  /\ IF ~reducedMotion /\ canvasPresent
     THEN /\ Construct("dom")
          /\ boot' = "domCtor"
          /\ UNCHANGED clickListener
     ELSE /\ boot' = "ready"
          /\ clickListener' = TRUE
          /\ UNCHANGED <<simVars, canvas, rng, running>>
  /\ UiUnchanged
  /\ Did("DOMContentLoaded", "none")
  /\ UNCHANGED <<envVars, hidden, focused, rafQueue, sideVars, enableParticles,
                 appListeners, errVars, pendingDraw, clock, events>>

\* ------------------------------------------------------------ the frame loop
\* Whether the host may run the oldest requestAnimationFrame callback: the
\* page is up, no script is running, and the document is visible (a hidden
\* document is given no animation frames).
FrameDue(cb) ==
  /\ boot = "ready"
  /\ running = Idle
  /\ ~hidden
  /\ rafQueue # <<>>
  /\ Head(rafQueue) = cb

\* An animate() whose step also depends on the time of the frame.
AnimateUpdateTimed(s) ==
  /\ \/ /\ running = [pc |-> "update", sim |-> s, ctor |-> TRUE]
        /\ UNCHANGED <<rafQueue, clock>>
     \/ /\ FrameDue(<<"animate", s>>)
        /\ rafQueue' = Tail(rafQueue)
        /\ clock' = clock + 1
  /\ particles' = [particles EXCEPT
       ![s] = [i \in 1 .. Len(particles[s]) |->
                 [updateParticle(particles[s][i], mouse[s], canvas.width, canvas.height)
                    EXCEPT !.opacity = @ + (clock % 2)]]]
  /\ running' = [pc |-> "draw", sim |-> s, ctor |-> running.ctor]
  /\ pendingDraw' = [pendingDraw EXCEPT ![s] = @ + 1]
  /\ UiUnchanged
  /\ Did("updateParticles", s)
  /\ UNCHANGED <<envVars, hidden, focused, rng, canvas, built, particleCount, mouse,
                 pauseAnimation, listening, sideVars, bootVars, errVars, events>>

\* animate(), first statement: this.updateParticles().  The call is either
\* the one the constructor makes or a frame callback.
AnimateUpdate(s) ==
  /\ \/ /\ running = [pc |-> "update", sim |-> s, ctor |-> TRUE]
        /\ UNCHANGED <<rafQueue, clock>>
     \/ /\ FrameDue(<<"animate", s>>)
        /\ rafQueue' = Tail(rafQueue)
        /\ clock' = clock + 1
  /\ particles' = [particles EXCEPT
       ![s] = updateParticles(particles[s], mouse[s], canvas.width, canvas.height)]
  /\ running' = [pc |-> "draw", sim |-> s, ctor |-> running.ctor]
  /\ pendingDraw' = [pendingDraw EXCEPT ![s] = @ + 1]
  /\ UiUnchanged
  /\ Did("updateParticles", s)
  /\ UNCHANGED <<envVars, hidden, focused, rng, canvas, built, particleCount, mouse,
                 pauseAnimation, listening, sideVars, bootVars, errVars, events>>

\* What follows the constructor of s once it has returned.
AfterConstructor(s) ==
  IF s = "app"
  THEN /\ boot' = "setup"
       /\ UNCHANGED clickListener
  ELSE /\ boot' = "ready"
       /\ clickListener' = TRUE

\* What follows the constructor of s once it has thrown: init() catches the
\* exception of "app" (handleInitializationError, showErrorFallback), nothing
\* catches the one of "dom".
ConstructorThrew(s, msg) ==
  IF s = "app"
  THEN /\ thrown' = Append(thrown, msg)
       /\ log' = log \o <<"Error initializing portfolio:",
                          "Portfolio initialization failed:">>
       /\ errorFallback' = TRUE
       /\ boot' = "domReady"
  ELSE /\ Uncaught(msg)
       /\ boot' = "ready"

\* animate(), the rest: this.drawParticles(), which needs the context, then
\* requestAnimationFrame; in the constructor setupEventListeners() follows.
AnimateDraw(s) ==
  /\ running.pc = "draw"
  /\ running.sim = s
  /\ IF contextOk
     THEN /\ lines' = drawConnections(particles[s])
          /\ rafQueue' = Append(rafQueue, <<"animate", s>>)
          /\ pendingDraw' = [pendingDraw EXCEPT ![s] = 0]
          /\ Did("drawParticles", s)
          /\ IF running.ctor
             THEN /\ listening' = [listening EXCEPT ![s] = TRUE]
                  /\ AfterConstructor(s)
             ELSE UNCHANGED <<listening, boot, clickListener>>
          /\ UNCHANGED errVars
     ELSE /\ Did("drawParticles threw", s)
          /\ IF running.ctor
             THEN ConstructorThrew(s, "ctx is null")
             ELSE /\ Uncaught("ctx is null")
                  /\ UNCHANGED boot
          /\ UNCHANGED <<lines, rafQueue, pendingDraw, listening, clickListener>>
  /\ running' = Idle
  /\ UiUnchanged
  /\ UNCHANGED <<envVars, hidden, focused, rng, canvas, built, particles,
                 particleCount, mouse, pauseAnimation, burstVars, enableParticles,
                 appListeners, clock, events>>

\* -------------------------------------------------------------------- events
\* A host that delivers events while animate() is between its two calls.
EventMidFrame == boot = "ready"

\* The host delivers an event only between scripts, to a page that is up.
EventReady ==
  /\ boot = "ready"
  /\ running = Idle

\* A 'mousemove' listener that also steps the particles at once.
MouseMoveAndStep(cx, cy) ==
  /\ EventReady
  /\ \E s \in SimIds : listening[s]
  /\ mouse' = [s \in SimIds |->
                 IF listening[s] THEN [x |-> <<cx>>, y |-> <<cy>>] ELSE mouse[s]]
  /\ particles' = [s \in SimIds |->
                     IF listening[s]
                     THEN updateParticles(particles[s], mouse'[s], canvas.width, canvas.height)
                     ELSE particles[s]]
  /\ events' = events + 1
  /\ UiUnchanged
  /\ Did("mousemove", "none")
  /\ UNCHANGED <<envVars, hidden, focused, rng, canvas, built,
                 particleCount, pauseAnimation, listening, rafQueue, running,
                 sideVars, bootVars, errVars, pendingDraw, clock>>

\* The 'mousemove' listener of every simulator that listens.
MouseMove(cx, cy) ==
  /\ EventReady
  /\ \E s \in SimIds : listening[s]
  /\ mouse' = [s \in SimIds |->
                 IF listening[s] THEN [x |-> <<cx>>, y |-> <<cy>>] ELSE mouse[s]]
  /\ events' = events + 1
  /\ UiUnchanged
  /\ Did("mousemove", "none")
  /\ UNCHANGED <<envVars, hidden, focused, rng, canvas, built, particles,
                 particleCount, pauseAnimation, listening, rafQueue, running,
                 sideVars, bootVars, errVars, pendingDraw, clock>>

\* The 'mouseleave' listener of every simulator that listens.
MouseLeave ==
  /\ EventReady
  /\ \E s \in SimIds : listening[s]
  /\ mouse' = [s \in SimIds |-> IF listening[s] THEN NoMouse ELSE mouse[s]]
  /\ events' = events + 1
  /\ UiUnchanged
  /\ Did("mouseleave", "none")
  /\ UNCHANGED <<envVars, hidden, focused, rng, canvas, built, particles,
                 particleCount, pauseAnimation, listening, rafQueue, running,
                 sideVars, bootVars, errVars, pendingDraw, clock>>

\* The state of Math.random() when the 'resize' listener of s starts: the
\* listeners run in the order of their registration, "app" before "dom".
RandBefore(s, w) ==
  IF s = "dom" /\ listening["app"]
  THEN RandAfter(getParticleCount(w, cores), rng)
  ELSE rng

\* A 'resize' listener that keeps the collection it had.
KeptParticles(s, w, h) == particles[s]

\* The 'resize' listener of one simulator: resizeCanvas(), getParticleCount(),
\* createParticles(), for the new viewport w x h.
ResizedParticles(s, w, h) ==
  createParticles(getParticleCount(w, cores), RandBefore(s, w), w, h)

\* A 'resize' listener that keeps the count it had.
StaleCount(s, w) == particleCount[s]

\* The 'resize' listener of one simulator: the new this.particleCount.
ResizedCount(s, w) == getParticleCount(w, cores)

\* The window takes the size w x h and the 'resize' listeners run.
Resize(w, h) ==
  /\ EventReady
  /\ \E s \in SimIds : listening[s]
  /\ innerWidth' = w
  /\ innerHeight' = h
  /\ canvas' = [width |-> w, height |-> h]
  /\ particleCount' = [s \in SimIds |->
                         IF listening[s] THEN ResizedCount(s, w) ELSE particleCount[s]]
  /\ particles' = [s \in SimIds |->
                     IF listening[s] THEN ResizedParticles(s, w, h) ELSE particles[s]]
  /\ rng' = RandAfter(Cardinality({s \in SimIds : listening[s]})
                        * getParticleCount(w, cores), rng)
  /\ events' = events + 1
  /\ UiUnchanged
  /\ Did("resize", "none")
  /\ UNCHANGED <<cores, reducedMotion, canvasPresent, contextOk, hidden, focused,
                 built, mouse, pauseAnimation, listening, rafQueue, running,
                 sideVars, bootVars, errVars, pendingDraw, clock>>

\* The host reports another navigator.hardwareConcurrency from now on (0:
\* undefined).  No listener runs: the program reads the property when it
\* needs it.
HintChange(c) ==
  /\ EventReady
  /\ c # cores
  /\ cores' = c
  /\ events' = events + 1
  /\ UiUnchanged
  /\ Did("hardwareConcurrency", "none")
  /\ UNCHANGED <<innerWidth, innerHeight, reducedMotion, canvasPresent, contextOk,
                 hidden, focused, rng, canvas, simVars, rafQueue, running,
                 sideVars, bootVars, errVars, pendingDraw, clock>>

\* ---- scroll and setMode ----
\* What stands for a velocity that is NaN or an infinity.
NotFinite == 1000000 * Scale

\* scrollRatio * 0.001 for window.pageYOffset = scrollY and
\* document.body.scrollHeight - window.innerHeight = maxScroll (>= 0):
\* the division by 0 yields NaN (0 / 0) or Infinity.
ScrollPush(scrollY, maxScroll) ==
  IF maxScroll = 0 THEN NotFinite
  ELSE RoundDiv(scrollY * Scale, 1000 * maxScroll)

\* particle.vy += scrollRatio * 0.001
Pushed(vy, push) ==
  IF vy = NotFinite \/ push = NotFinite THEN NotFinite ELSE vy + push

\* The forEach of the 'scroll' listener.
Scrolled(ps, scrollY, maxScroll) ==
  [i \in 1 .. Len(ps) |->
     [ps[i] EXCEPT !.vy = Pushed(@, ScrollPush(scrollY, maxScroll))]]

\* The page is scrolled to scrollY and the 'scroll' listeners run.
Scroll(scrollY, maxScroll) ==
  /\ EventReady
  /\ \E s \in SimIds : listening[s]
  /\ particles' = [s \in SimIds |->
                     IF listening[s] THEN Scrolled(particles[s], scrollY, maxScroll)
                     ELSE particles[s]]
  /\ events' = events + 1
  /\ UiUnchanged
  /\ Did("scroll", "none")
  /\ UNCHANGED <<envVars, hidden, focused, rng, canvas, built, particleCount, mouse,
                 pauseAnimation, listening, rafQueue, running, sideVars, bootVars,
                 errVars, pendingDraw, clock>>

\* (Math.random() - 0.5) * num / den, for the draw r.
Spread(r, num, den) == RoundDiv((r - 512) * Scale * num, 1024 * den)

\* Math.random() draws of setMode(mode) for one particle.
ModeDraws(mode) ==
  IF mode = "upward" THEN 1 ELSE IF mode \in {"calm", "energetic"} THEN 2 ELSE 0

\* setMode(mode) on the collection ps, Math.random() being in state r.
setMode(ps, mode, r) ==
  [i \in 1 .. Len(ps) |->
     LET r0 == RandSkip(r, ModeDraws(mode) * (i - 1))
         r1 == NextRand(r0)
         r2 == NextRand(r1)
     IN  IF mode = "calm"
         THEN [ps[i] EXCEPT !.vx = Spread(r1, 2, 10), !.vy = Spread(r2, 2, 10)]
         ELSE IF mode = "energetic"
         THEN [ps[i] EXCEPT !.vx = Spread(r1, 15, 10), !.vy = Spread(r2, 15, 10)]
         ELSE IF mode = "upward"
         THEN [ps[i] EXCEPT !.vy = IF @ = NotFinite THEN NotFinite
                                   ELSE -Abs(@) - RandTimes(r1, Dec(5, 10))]
         ELSE ps[i]]

\* A script calls setMode(mode) on simulator s.
SetMode(s, mode) ==
  /\ EventReady
  /\ listening[s]
  /\ particles' = [particles EXCEPT ![s] = setMode(@, mode, rng)]
  /\ rng' = RandSkip(rng, ModeDraws(mode) * Len(particles[s]))
  /\ events' = events + 1
  /\ UiUnchanged
  /\ Did("setMode", s)
  /\ UNCHANGED <<envVars, hidden, focused, canvas, built, particleCount, mouse,
                 pauseAnimation, listening, rafQueue, running, sideVars, bootVars,
                 errVars, pendingDraw, clock>>

\* PortfolioApp.handleWindowBlur / handleWindowFocus: they call pause() and
\* resume() of components.particles, methods that ParticleSystem does not
\* define, so the call throws a TypeError.
CallOnParticles(method) ==
  IF appListeners /\ listening["app"]
  THEN Uncaught(method)
  ELSE UNCHANGED errVars

\* A 'visibilitychange' listener that starts animate() again when the tab is
\* shown.
VisibilityChangeRearm ==
  /\ EventReady
  /\ hidden' = ~hidden
  /\ pauseAnimation' = [s \in SimIds |->
                          IF listening[s] THEN <<hidden'>> ELSE pauseAnimation[s]]
  /\ rafQueue' = IF hidden'
                 THEN rafQueue
                 ELSE rafQueue \o SelectSeq(<< <<"animate", "app">>, <<"animate", "dom">> >>,
                                            LAMBDA cb : listening[cb[2]])
  /\ CallOnParticles(IF hidden' THEN "pause is not a function"
                                ELSE "resume is not a function")
  /\ events' = events + 1
  /\ UiUnchanged
  /\ Did("visibilitychange", "none")
  /\ UNCHANGED <<envVars, focused, rng, canvas, built, particles, particleCount,
                 mouse, listening, running, lines, explosions, burstFrames,
                 bootVars, pendingDraw, clock>>

\* 'visibilitychange': the listener of every simulator records document.hidden
\* in pauseAnimation; PortfolioApp.handleVisibilityChange calls
\* handleWindowBlur or handleWindowFocus.
VisibilityChange ==
  /\ EventReady
  /\ hidden' = ~hidden
  /\ pauseAnimation' = [s \in SimIds |->
                          IF listening[s] THEN <<hidden'>> ELSE pauseAnimation[s]]
  /\ CallOnParticles(IF hidden' THEN "pause is not a function"
                                ELSE "resume is not a function")
  /\ events' = events + 1
  /\ UiUnchanged
  /\ Did("visibilitychange", "none")
  /\ UNCHANGED <<envVars, focused, rng, canvas, built, particles, particleCount,
                 mouse, listening, rafQueue, running, sideVars, bootVars,
                 pendingDraw, clock>>

\* 'blur' of the window: PortfolioApp.handleWindowBlur.
WindowBlur ==
  /\ EventReady
  /\ focused
  /\ focused' = FALSE
  /\ CallOnParticles("pause is not a function")
  /\ events' = events + 1
  /\ UiUnchanged
  /\ Did("blur", "none")
  /\ UNCHANGED <<envVars, hidden, rng, canvas, simVars, rafQueue, running,
                 sideVars, bootVars, pendingDraw, clock>>

\* 'focus' of the window: PortfolioApp.handleWindowFocus.
WindowFocus ==
  /\ EventReady
  /\ ~focused
  /\ focused' = TRUE
  /\ CallOnParticles("resume is not a function")
  /\ events' = events + 1
  /\ UiUnchanged
  /\ Did("focus", "none")
  /\ UNCHANGED <<envVars, hidden, rng, canvas, simVars, rafQueue, running,
                 sideVars, bootVars, pendingDraw, clock>>

\* ------------------------------------------------------------------ timers
\* What of the particle simulators and the start-up no step of the other
\* components touches.
fieldVars == <<envVars, hidden, focused, rng, canvas, simVars, rafQueue, running,
               sideVars, bootVars, errVars, pendingDraw, clock>>

\* setTimeout(fn, delay) at the present time: the callback fn of object c
\* with the captured value arg.
Timer(fn, c, arg, delay) == [due |-> now + delay, fn |-> fn, c |-> c, arg |-> arg]

\* The position in q of the timer the host runs next: the one due first,
\* the oldest among equals.
NextTimer(q) ==
  CHOOSE i \in 1 .. Len(q) :
    \A j \in 1 .. Len(q) : q[i].due < q[j].due \/ (q[i].due = q[j].due /\ i <= j)

\* q without its i-th element.
Without(q, i) == [j \in 1 .. Len(q) - 1 |-> IF j < i THEN q[j] ELSE q[j + 1]]

\* d milliseconds pass in which no timer is due.
Wait(d) ==
  /\ \A i \in 1 .. Len(timers) : timers[i].due >= now + d
  /\ now' = now + d
  /\ Did("wait", "none")
  /\ UNCHANGED <<fieldVars, events, timers, theme, page>>

\* ------------------------------------------------------------------- themes
ThemeNames == {"dark", "light"}

Opposite(t) == IF t = "dark" THEN "light" ELSE "dark"

\* this.prefersDarkScheme.matches ? 'dark' : 'light'
SystemTheme(t) == IF t.prefersDark THEN "dark" ELSE "light"

\* updateThemeToggle() throws for the record t: there is a toggle and
\* this.themes[this.currentTheme] is undefined, so that theme.label is a
\* TypeError.
ToggleThrows(t, c) == t.hasToggle /\ t.currentTheme[c] \notin ThemeNames

\* applyTheme(themeName) of controller c as far as it gets: the class list,
\* currentTheme and saveTheme() come before updateThemeToggle().
applyTheme(t, c, themeName) ==
  [t EXCEPT !.classes = (@ \ ThemeNames) \cup {themeName},
            !.currentTheme[c] = themeName,
            !.stored = <<themeName>>]

\* loadSavedTheme() of controller c; '' is as good as nothing stored.
loadSavedTheme(t, c) ==
  IF t.stored # NULL /\ t.stored[1] # ""
  THEN applyTheme(t, c, t.stored[1])
  ELSE applyTheme(t, c, SystemTheme(t))

\* new ThemeController(), for the object c: init() runs loadSavedTheme()
\* and, unless that throws, installs the listeners.
ThemeConstructed(t, c) ==
  LET loaded == loadSavedTheme([t EXCEPT !.currentTheme[c] = "dark"], c)
  IN  [loaded EXCEPT !.state[c] = IF ToggleThrows(loaded, c) THEN "threw" ELSE "ready"]

\* The page constructs its ThemeController objects: that of PortfolioApp
\* first, the global one of the DOMContentLoaded initializer after it.
ThemeConstruct(c) ==
  /\ theme.state[c] = "none"
  /\ c = "dom" => theme.state["app"] # "none"
  /\ theme' = ThemeConstructed(theme, c)
  /\ Did("new ThemeController", c)
  /\ UNCHANGED <<fieldVars, events, now, timers, page>>

\* The controllers whose listeners are installed, in the order of their
\* construction.
ThemeListeners(t) == SelectSeq(<<"app", "dom">>, LAMBDA c : t.state[c] = "ready")

\* The timers of one Ctrl+T: toggleTheme() of every listening controller
\* hands setTimeout the theme to apply, computed at the time of the call.
ToggleTimers(t) ==
  [k \in 1 .. Len(ThemeListeners(t)) |->
     Timer("applyTheme", ThemeListeners(t)[k],
           Opposite(t.currentTheme[ThemeListeners(t)[k]]), 50)]

\* The DOMContentLoaded listeners have run: user events may come.
ThemeUp == \A c \in CtlIds : theme.state[c] # "none"

\* 'keydown' of Ctrl+T: the listener of every controller calls toggleTheme().
KeyToggle ==
  /\ ThemeUp
  /\ ThemeListeners(theme) # <<>>
  /\ theme' = [theme EXCEPT !.transitioning = TRUE, !.keys = @ + 1]
  /\ timers' = timers \o ToggleTimers(theme)
  /\ events' = events + 1
  /\ Did("toggleTheme", "none")
  /\ UNCHANGED <<fieldVars, now, page>>

RECURSIVE SystemChanged(_, _)
\* The 'change' listeners of prefersDarkScheme, for the controllers cs in
\* turn: applyTheme(systemTheme) where nothing is stored.
SystemChanged(t, cs) ==
  IF cs = <<>> THEN t
  ELSE SystemChanged(IF t.stored = NULL \/ t.stored = <<"">>
                     THEN applyTheme(t, Head(cs), SystemTheme(t))
                     ELSE t,
                     Tail(cs))

\* The system colour scheme changes and the 'change' listeners run.
SystemChange ==
  /\ ThemeUp
  /\ ThemeListeners(theme) # <<>>
  /\ theme' = SystemChanged([theme EXCEPT !.prefersDark = ~@], ThemeListeners(theme))
  /\ events' = events + 1
  /\ Did("prefers-color-scheme", "none")
  /\ UNCHANGED <<fieldVars, now, timers, page>>

\* A timer of toggleTheme() comes due: the outer one applies the theme and
\* sets the inner one, which ends the transition.
ThemeTimer ==
  /\ timers # <<>>
  /\ LET i  == NextTimer(timers)
         tm == timers[i]
     IN  /\ tm.fn \in {"applyTheme", "endTransition"}
         /\ now' = Max(now, tm.due)
         /\ IF tm.fn = "applyTheme"
            THEN /\ theme' = applyTheme(theme, tm.c, tm.arg)
                 /\ timers' = Append(Without(timers, i),
                                     [due |-> now' + 300, fn |-> "endTransition",
                                      c |-> tm.c, arg |-> ""])
            ELSE /\ theme' = [theme EXCEPT !.transitioning = FALSE]
                 /\ timers' = Without(timers, i)
         /\ Did(tm.fn, tm.c)
  /\ UNCHANGED <<fieldVars, events, page>>

\* --------------------------------------------------------------- navigation
\* The controllers whose listeners are installed, in the order of their
\* construction.
NavListeners(n) == SelectSeq(<<"app", "dom">>, LAMBDA c : n.state[c] = "ready")

\* openMobileMenu() of controller c; the timers of animateMenuItems(true) are
\* in MenuTimers.
openMobileMenu(n, c) ==
  [n EXCEPT !.isMenuOpen[c] = TRUE,
            !.hamburger = @ \cup {"active"},
            !.navMenu = @ \cup {"active"},
            !.overflow = "hidden"]

\* A closeMobileMenu() that leaves the scrolling of the body locked.
closeKeepsLock(n, c) ==
  [n EXCEPT !.isMenuOpen[c] = FALSE,
            !.hamburger = @ \ {"active"},
            !.navMenu = @ \ {"active"},
            !.items = [k \in 1 .. MenuItems |-> "0"]]

\* closeMobileMenu() of controller c, animateMenuItems(false) included.
closeMobileMenu(n, c) ==
  [n EXCEPT !.isMenuOpen[c] = FALSE,
            !.hamburger = @ \ {"active"},
            !.navMenu = @ \ {"active"},
            !.overflow = "",
            !.items = [k \in 1 .. MenuItems |-> "0"]]

\* toggleMobileMenu() of controller c.
toggleMobileMenu(n, c) ==
  IF n.isMenuOpen[c] THEN closeMobileMenu(n, c) ELSE openMobileMenu(n, c)

\* handleResize() of controller c, the window being w pixels wide.
handleResize(n, c, w) ==
  IF ~(w < MobileWidth) /\ n.isMenuOpen[c] THEN closeMobileMenu(n, c) ELSE n

\* What the listener of controller c does with the event ev: a click on the
\* hamburger, a click outside the navbar, a click on a nav link whose target
\* section exists or does not, a resize to w pixels.
NavListener(n, c, ev, w) ==
  IF ev = "hamburger" THEN toggleMobileMenu(n, c)
  ELSE IF ev \in {"outside", "link"} THEN (IF n.isMenuOpen[c] THEN closeMobileMenu(n, c) ELSE n)
  ELSE IF ev = "resize" THEN handleResize(n, c, w)
  ELSE n

RECURSIVE NavDispatch(_, _, _, _)
\* The listeners of the controllers cs run one after the other.
NavDispatch(n, cs, ev, w) ==
  IF cs = <<>> THEN n
  ELSE NavDispatch(NavListener(n, Head(cs), ev, w), Tail(cs), ev, w)

RECURSIVE MenuTimers(_, _, _)
\* The timers of animateMenuItems(true), index * 100 ms for the item of that
\* index, set by every listener of cs that opens the menu.
MenuTimers(n, cs, ev) ==
  IF cs = <<>> THEN <<>>
  ELSE (IF ev = "hamburger" /\ ~n.isMenuOpen[Head(cs)]
        THEN [k \in 1 .. MenuItems |-> Timer("showItem", Head(cs), k, (k - 1) * 100)]
        ELSE <<>>)
       \o MenuTimers(NavListener(n, Head(cs), ev, 0), Tail(cs), ev)

\* The page constructs its NavigationController objects: that of
\* PortfolioApp first, the global one after it.
NavConstruct(c) ==
  /\ page.nav.state[c] = "none"
  /\ c = "dom" => page.nav.state["app"] # "none"
  /\ page' = [page EXCEPT !.nav.state[c] = "ready", !.nav.isMenuOpen[c] = FALSE]
  /\ Did("new NavigationController", c)
  /\ UNCHANGED <<fieldVars, events, now, timers, theme>>

\* The DOMContentLoaded listeners have run: user events may come.
NavUp == \A c \in CtlIds : page.nav.state[c] # "none"

\* A click on the hamburger, outside the navbar, or on a nav link (ev "link"
\* with a target section, "deadlink" without).
NavClick(ev) ==
  /\ NavUp
  /\ page' = [page EXCEPT !.nav = NavDispatch(@, NavListeners(@), ev, innerWidth)]
  /\ timers' = timers \o MenuTimers(page.nav, NavListeners(page.nav), ev)
  /\ events' = events + 1
  /\ Did(ev, "none")
  /\ UNCHANGED <<fieldVars, now, theme>>

\* The window becomes w pixels wide and the 'resize' listeners run.
NavResize(w) ==
  /\ NavUp
  /\ innerWidth' = w
  /\ page' = [page EXCEPT !.nav = NavDispatch(@, NavListeners(@), "resize", w)]
  /\ events' = events + 1
  /\ Did("resize", "none")
  /\ UNCHANGED <<innerHeight, cores, reducedMotion, canvasPresent, contextOk,
                 hidden, focused, rng, canvas, simVars, rafQueue, running,
                 sideVars, bootVars, errVars, pendingDraw, clock, now, timers, theme>>

\* A timer of animateMenuItems(true) comes due: the item becomes opaque.
NavTimer ==
  /\ timers # <<>>
  /\ LET i  == NextTimer(timers)
         tm == timers[i]
     IN  /\ tm.fn = "showItem"
         /\ now' = Max(now, tm.due)
         /\ page' = [page EXCEPT !.nav.items[tm.arg] = "1"]
         /\ timers' = Without(timers, i)
         /\ Did(tm.fn, tm.c)
  /\ UNCHANGED <<fieldVars, events, theme>>

\* ------------------------------------------------------------- contact form
\* The first required field that is missing or blank in the values vals (a
\* function from field names to strings), 0 if there is none:
\* !formData.get(field) || formData.get(field).trim() === ''.
Blank(v) == v = "" \/ v = " "

FirstBlank(vals) ==
  IF \E k \in 1 .. Len(RequiredFields) : Blank(vals[RequiredFields[k]])
  THEN CHOOSE k \in 1 .. Len(RequiredFields) :
         /\ Blank(vals[RequiredFields[k]])
         /\ \A j \in 1 .. k - 1 : ~Blank(vals[RequiredFields[j]])
  ELSE 0

\* A finally block that restores the label and forgets the button.
labelOnly(f) == [f EXCEPT !.text = "Send Message"]

\* The finally block: the label and the button are reset.
resetButton(f) == [f EXCEPT !.text = "Send Message", !.disabled = FALSE]

\* The handler ends by way, after showing a notification of type note.
Ended(f, note, way) ==
  resetButton([f EXCEPT !.pc = "idle", !.notes = Append(@, note), !.ended = @ \cup {way}])

\* 'submit' of the contact form with the field values vals, up to the return
\* for a blank field or to the await of fetch().  A disabled button submits
\* nothing.
Submit(vals) ==
  /\ page.form.pc = "idle"
  /\ ~page.form.disabled
  /\ page' = [page EXCEPT !.form =
                IF FirstBlank(vals) # 0
                THEN Ended(@, "error", "blank")
                ELSE [@ EXCEPT !.pc = "fetch", !.text = "Sending...",
                               !.disabled = TRUE, !.requests = @ + 1]]
  /\ events' = events + 1
  /\ Did("submit", "none")
  /\ UNCHANGED <<fieldVars, now, timers, theme>>

\* fetch() settles: with a response that is ok, with one that is not (the
\* handler goes on to await response.json()), or with a rejection.
FetchSettles(outcome) ==
  /\ page.form.pc = "fetch"
  /\ page' = [page EXCEPT !.form =
                IF outcome = "ok" THEN Ended(@, "success", "ok")
                ELSE IF outcome = "notok" THEN [@ EXCEPT !.pc = "json"]
                ELSE Ended(@, "error", "rejected")]
  /\ Did("fetch", outcome)
  /\ UNCHANGED <<fieldVars, events, now, timers, theme>>

\* response.json() settles, with the error data or with a rejection: the
\* handler throws or rethrows, and the catch block shows the notification.
JsonSettles(outcome) ==
  /\ page.form.pc = "json"
  /\ page' = [page EXCEPT !.form = Ended(@, "error", "notok")]
  /\ Did("response.json", outcome)
  /\ UNCHANGED <<fieldVars, events, now, timers, theme>>

\* ------------------------------------------------------------------- typing
\* new AnimationController(), for the object c: setupTypingAnimations() takes
\* the text of the element as it is now, clears the element and sets the
\* timer that starts typeWriter().
AnimConstruct(c) ==
  /\ page.typing.state[c] = "none"
  /\ page' = [page EXCEPT !.typing.state[c] = "ready",
                          !.typing.text[c] = page.typing.content,
                          !.typing.content = <<>>]
  /\ timers' = Append(timers, Timer("typeWriter", c, 0, page.typing.delay))
  /\ Did("new AnimationController", c)
  /\ UNCHANGED <<fieldVars, events, now, theme>>

\* One call of typing() of controller c: the next character and a timer, or
\* blinkCursor(element) once i has reached text.length.
typing(t, c) ==
  IF t.i[c] < Len(t.text[c])
  THEN [t EXCEPT !.content = Append(@, t.text[c][t.i[c] + 1]),
                 !.i[c] = @ + 1,
                 !.ticks[c] = @ + 1]
  ELSE [t EXCEPT !.intervals = @ + 1, !.ticks[c] = @ + 1]

\* A timer of the typing animation comes due: the delayed typeWriter(), which
\* calls typing() at once, or typing() itself.
TypingTimer ==
  /\ timers # <<>>
  /\ LET i  == NextTimer(timers)
         tm == timers[i]
     IN  /\ tm.fn \in {"typeWriter", "typing"}
         /\ now' = Max(now, tm.due)
         /\ page' = [page EXCEPT !.typing = typing(@, tm.c)]
         /\ timers' = IF page.typing.i[tm.c] < Len(page.typing.text[tm.c])
                       THEN Append(Without(timers, i),
                                   [due |-> now' + page.typing.speed, fn |-> "typing",
                                    c |-> tm.c, arg |-> 0])
                       ELSE Without(timers, i)
         /\ Did(tm.fn, tm.c)
  /\ UNCHANGED <<fieldVars, events, theme>>

\* ----------------------------------------------------- debounce and throttle
\* clearTimeout(handle) on the pending timers q: the timer of that handle, if
\* it is still pending, is gone.
clearTimeout(q, handle) ==
  IF handle # NULL /\ \E i \in 1 .. Len(q) : q[i] = handle[1]
  THEN Without(q, CHOOSE i \in 1 .. Len(q) : q[i] = handle[1])
  ELSE q

\* A wrapper that sets its timer without clearing the one before.
Stacked(q, handle, tm) == Append(q, tm)

\* executedFunction: clearTimeout(timeout), then setTimeout(later, wait).
Rescheduled(q, handle, tm) == Append(clearTimeout(q, handle), tm)

\* A call of the debounced function with the arguments args.
DebouncedCall(args) ==
  /\ LET tm == Timer("later", "app", args, DebounceWait)
         d  == page.debounce
     IN  /\ timers' = Rescheduled(timers, d.timeout, tm)
         /\ page' = [page EXCEPT
               !.debounce.timeout = <<tm>>,
               !.debounce.calls = @ + 1,
               !.debounce.lastCall = now,
               !.debounce.lastArgs = args,
               !.debounce.bursts =
                  IF d.calls = 0 \/ now - d.lastCall >= DebounceWait THEN @ + 1 ELSE @]
  /\ events' = events + 1
  /\ Did("debounced", "app")
  /\ UNCHANGED <<fieldVars, now, theme>>

\* The timer of the debounced function comes due: later() clears the
\* timeout, which has run, and invokes func with the arguments of its call.
DebounceTimer ==
  /\ timers # <<>>
  /\ LET i  == NextTimer(timers)
         tm == timers[i]
     IN  /\ tm.fn = "later"
         /\ now' = Max(now, tm.due)
         /\ timers' = clearTimeout(Without(timers, i), page.debounce.timeout)
         /\ page' = [page EXCEPT !.debounce.invoked = Append(@, tm.arg)]
         /\ Did(tm.fn, tm.c)
  /\ UNCHANGED <<fieldVars, events, theme>>

\* A throttled function that replays a dropped call when its timer runs.
ThrottleReleasedReplay(th, c) ==
  [th EXCEPT !.inThrottle[c] = FALSE, !.invoked[c] = Append(@, now)]

\* The timer of the throttled function of c runs: inThrottle = false.
ThrottleReleased(th, c) == [th EXCEPT !.inThrottle[c] = FALSE]

\* The throttled function of controller c is called at the present time.
throttled(th, c) ==
  IF ~th.inThrottle[c]
  THEN [th EXCEPT !.invoked[c] = Append(@, now), !.inThrottle[c] = TRUE]
  ELSE th

\* A 'scroll' event: the throttled handleScroll of every controller is
\* called, and those that invoke it set their timer.
ThrottledCall ==
  /\ page' = [page EXCEPT
        !.throttle = [throttled(throttled(@, "app"), "dom") EXCEPT !.calls = @ + 1]]
  /\ timers' = timers \o SelectSeq(<< Timer("release", "app", 0, ThrottleLimit),
                                       Timer("release", "dom", 0, ThrottleLimit) >>,
                                    LAMBDA tm : ~page.throttle.inThrottle[tm.c])
  /\ events' = events + 1
  /\ Did("throttled", "none")
  /\ UNCHANGED <<fieldVars, now, theme>>

\* The timer of a throttled function comes due.
ThrottleTimer ==
  /\ timers # <<>>
  /\ LET i  == NextTimer(timers)
         tm == timers[i]
     IN  /\ tm.fn = "release"
         /\ now' = Max(now, tm.due)
         /\ timers' = Without(timers, i)
         /\ page' = [page EXCEPT !.throttle = ThrottleReleased(@, tm.c)]
         /\ Did(tm.fn, tm.c)
  /\ UNCHANGED <<fieldVars, events, theme>>

\* ---------------------------------------------------------------- explosions
\* Math.cos and Math.sin of the angle 2 * pi * i / 15, times 1000, i = 0 .. 14.
CosTable ==
  <<1000, 914, 669, 309, -105, -500, -809, -978, -978, -809, -500, -105, 309, 669, 914>>

SinTable ==
  <<0, 407, 743, 951, 995, 866, 588, 208, -208, -588, -866, -995, -951, -743, -407>>

\* The object literal pushed by createExplosion for index i, from four
\* successive draws of Math.random(), the first being NextRand(r).
NewExplosionParticle(i, r, x, y) ==
  LET r1 == NextRand(r)
      r2 == NextRand(r1)
      r3 == NextRand(r2)
      r4 == NextRand(r3)
      velocity == RandTimes(r1, 5 * Scale) + 2 * Scale
  IN  [ x       |-> x,
        y       |-> y,
        vx      |-> RoundDiv(CosTable[i + 1] * velocity, 1000),
        vy      |-> RoundDiv(SinTable[i + 1] * velocity, 1000),
        size    |-> RandTimes(r2, 4 * Scale) + 2 * Scale,
        color   |-> RandTimes(r3, NumColors),
        opacity |-> Scale,
        life    |-> Scale,
        decay   |-> RandTimes(r4, Dec(2, 100)) + Dec(1, 100) ]

\* The first loop of createExplosion: four draws a particle.
NewExplosion(r, x, y) ==
  [k \in 1 .. ExplosionCount |->
     NewExplosionParticle(k - 1, RandSkip(r, 4 * (k - 1)), x, y)]

RandAfterExplosion(r) == RandSkip(r, 4 * ExplosionCount)

\* The body of the forEach of animateExplosion, before the test of life.
ExplosionStep(p) ==
  [ x       |-> p.x + p.vx,
    y       |-> p.y + p.vy,
    vx      |-> RoundDiv(98 * p.vx, 100),
    vy      |-> RoundDiv(98 * p.vy, 100),
    size    |-> p.size,
    color   |-> p.color,
    opacity |-> p.life - p.decay,
    life    |-> p.life - p.decay,
    decay   |-> p.decay ]

\* particle.life -= particle.decay leaves particle.life <= 0.
Expires(p) == p.life - p.decay <= 0

RECURSIVE Visited(_, _)
\* Whether explosionParticles.forEach(...) calls its callback on the e-th
\* element of arr, the array as it is when forEach begins.  forEach goes
\* through the positions in order; a particle whose life is used up is
\* spliced out during its visit, which moves its successor down into the
\* position just visited, so that the successor is passed over.
Visited(arr, e) ==
  IF e = 1 THEN TRUE
  ELSE ~(Visited(arr, e - 1) /\ Expires(arr[e - 1]))

RECURSIVE AfterForEach(_, _)
\* What the forEach leaves of the first e elements of arr: a visited particle
\* is stepped, and removed if its life is used up; a particle passed over
\* stays as it is.
AfterForEach(arr, e) ==
  IF e = 0 THEN <<>>
  ELSE AfterForEach(arr, e - 1) \o
         (IF ~Visited(arr, e) THEN <<arr[e]>>
          ELSE IF Expires(arr[e]) THEN <<>>
          ELSE <<ExplosionStep(arr[e])>>)

\* One call of animateExplosion on the array arr: the array afterwards.
animateExplosion(arr) == AfterForEach(arr, Len(arr))

\* A createExplosion that also stores the click point as the pointer.
ClickMovesPointer(cx, cy) ==
  /\ EventReady
  /\ clickListener
  /\ IF listening["dom"] /\ ~reducedMotion
     THEN LET first == animateExplosion(NewExplosion(rng, Px(cx), Px(cy)))
              b     == Len(explosions) + 1
          IN  /\ explosions' = Append(explosions, first)
              /\ burstFrames' = Append(burstFrames, 1)
              /\ rng' = RandAfterExplosion(rng)
              /\ mouse' = [mouse EXCEPT !["dom"] = [x |-> <<cx>>, y |-> <<cy>>]]
              /\ rafQueue' = IF Len(first) > 0
                             THEN Append(rafQueue, <<"explosion", b>>)
                             ELSE rafQueue
     ELSE UNCHANGED <<explosions, burstFrames, rng, rafQueue, mouse>>
  /\ events' = events + 1
  /\ UiUnchanged
  /\ Did("click", "none")
  /\ UNCHANGED <<envVars, hidden, focused, canvas, built, particles, particleCount,
                 pauseAnimation, listening, running, lines, bootVars,
                 errVars, pendingDraw, clock>>

\* The click listener of the DOMContentLoaded initializer: createExplosion at
\* the pointer, which runs the first animateExplosion itself.
Click(cx, cy) ==
  /\ EventReady
  /\ clickListener
  /\ IF listening["dom"] /\ ~reducedMotion
     THEN LET first == animateExplosion(NewExplosion(rng, Px(cx), Px(cy)))
              b     == Len(explosions) + 1
          IN  /\ explosions' = Append(explosions, first)
              /\ burstFrames' = Append(burstFrames, 1)
              /\ rng' = RandAfterExplosion(rng)
              /\ rafQueue' = IF Len(first) > 0
                             THEN Append(rafQueue, <<"explosion", b>>)
                             ELSE rafQueue
     ELSE UNCHANGED <<explosions, burstFrames, rng, rafQueue>>
  /\ events' = events + 1
  /\ UiUnchanged
  /\ Did("click", "none")
  /\ UNCHANGED <<envVars, hidden, focused, canvas, simVars, running, lines, bootVars,
                 errVars, pendingDraw, clock>>

\* An animateExplosion that asks for the next frame whatever is left.
ExplosionFrameAlways(b) ==
  /\ FrameDue(<<"explosion", b>>)
  /\ explosions' = [explosions EXCEPT ![b] = animateExplosion(explosions[b])]
  /\ rafQueue' = Append(Tail(rafQueue), <<"explosion", b>>)
  /\ burstFrames' = [burstFrames EXCEPT ![b] = @ + 1]
  /\ clock' = clock + 1
  /\ UiUnchanged
  /\ Did("animateExplosion", "none")
  /\ UNCHANGED <<envVars, hidden, focused, rng, canvas, simVars, running, lines,
                 bootVars, errVars, pendingDraw, events>>

\* A frame callback of burst b: animateExplosion.
ExplosionFrame(b) ==
  /\ FrameDue(<<"explosion", b>>)
  /\ LET next == animateExplosion(explosions[b])
     IN  /\ explosions' = [explosions EXCEPT ![b] = next]
         /\ rafQueue' = IF Len(next) > 0
                        THEN Append(Tail(rafQueue), <<"explosion", b>>)
                        ELSE Tail(rafQueue)
  /\ burstFrames' = [burstFrames EXCEPT ![b] = @ + 1]
  /\ clock' = clock + 1
  /\ UiUnchanged
  /\ Did("animateExplosion", "none")
  /\ UNCHANGED <<envVars, hidden, focused, rng, canvas, simVars, running, lines,
                 bootVars,
                 errVars, pendingDraw, events>>

\* ------------------------------------------------------------ specifications
\* Start-up, in the order the page runs it.
Boot ==
  \/ InitializeApp
  \/ InitializeComponents
  \/ FinishInit
  \/ DOMContentLoaded

\* ---- the field: a few frames under pointer and resize events ----
FieldConfigs ==
  { [w |-> 2,    h |-> 1,   c |-> 0],
    [w |-> 900,  h |-> 600, c |-> 8],
    [w |-> 1400, h |-> 600, c |-> 2] }

FieldSizes == { <<2, 1>>, <<768, 600>>, <<1024, 600>> }

InitField ==
  \E cfg \in FieldConfigs :
    PageLoaded(cfg.w, cfg.h, cfg.c, FALSE, TRUE, TRUE, 0)

FieldFrame ==
  \/ \E s \in SimIds : clock < MaxFrames /\ AnimateUpdate(s)
  \/ \E s \in SimIds : AnimateDraw(s)

FieldEvent ==
  \/ events < MaxEvents /\ MouseMove(innerWidth \div 2, innerHeight \div 2)
  \/ events < MaxEvents /\ MouseLeave
  \/ \E sz \in FieldSizes : events < MaxEvents /\ Resize(sz[1], sz[2])

NextField == Boot \/ FieldFrame \/ FieldEvent

SpecField == InitField /\ [][NextField]_vars

\* ---- sustained attraction: the pointer leads the first particle ----
InitAttract ==
  \E seed \in 0 .. MaxSeed : PageLoaded(600, 400, 0, FALSE, TRUE, TRUE, seed)

\* Where the user holds the pointer: Lead pixels to the right of the first
\* particle of the global simulator, inside the viewport.
TrackPoint ==
  LET p == particles["dom"][1]
  IN  [ x |-> <<Min(p.x \div Scale + Lead, innerWidth - 1)>>,
        y |-> <<Min(p.y \div Scale, innerHeight - 1)>> ]

OnTarget == listening["dom"] /\ mouse["dom"] = TrackPoint

\* The user moves the pointer to the tracking point before every frame.
Track ==
  /\ listening["dom"]
  /\ ~OnTarget
  /\ MouseMove(TrackPoint.x[1], TrackPoint.y[1])

AttractFrame ==
  \/ \E s \in SimIds :
       /\ boot = "ready" => (OnTarget /\ clock < AttractFrames)
       /\ AnimateUpdate(s)
  \/ \E s \in SimIds : AnimateDraw(s)

NextAttract == Boot \/ Track \/ AttractFrame

SpecAttract == InitAttract /\ [][NextAttract]_vars

\* ---- start-up and visibility: every environment the page may load in ----
InitBoot ==
  \E w \in {500, 1400}, c \in {2, 8}, rm \in BOOLEAN, cp \in BOOLEAN, ok \in BOOLEAN :
    PageLoaded(w, 600, c, rm, cp, ok, 0)

BootFrame ==
  \/ \E s \in SimIds : clock < MaxFrames /\ AnimateUpdate(s)
  \/ \E s \in SimIds : AnimateDraw(s)

BootEvent ==
  \/ events < MaxEvents /\ VisibilityChange
  \/ events < MaxEvents /\ WindowBlur
  \/ events < MaxEvents /\ WindowFocus

NextBoot == Boot \/ BootFrame \/ BootEvent

SpecBoot == InitBoot /\ [][NextBoot]_vars

\* ---- explosions: clicks early on, then frames until the bursts are over ----
InitBurst ==
  \E seed \in 0 .. MaxSeed : PageLoaded(600, 400, 0, FALSE, TRUE, TRUE, seed)

BurstFrame ==
  \/ \E s \in SimIds : clock < BurstCallbacks /\ AnimateUpdate(s)
  \/ \E s \in SimIds : AnimateDraw(s)
  \/ \E b \in 1 .. MaxBursts :
       b <= Len(explosions) /\ clock < BurstCallbacks /\ ExplosionFrame(b)

BurstEvent ==
  /\ Len(explosions) < MaxBursts
  /\ clock <= ClickWindow
  /\ Click(300, 200)

NextBurst == Boot \/ BurstFrame \/ BurstEvent

SpecBurst == InitBurst /\ [][NextBurst]_vars

\* ---- the motion preference: start-up, frames and clicks ----
InitMotion ==
  \E w \in {500, 1400}, c \in {2, 8}, rm \in BOOLEAN :
    PageLoaded(w, 600, c, rm, TRUE, TRUE, 0)

MotionFrame ==
  \/ \E s \in SimIds : clock < MaxFrames /\ AnimateUpdate(s)
  \/ \E s \in SimIds : AnimateDraw(s)
  \/ \E b \in 1 .. MaxBursts :
       b <= Len(explosions) /\ clock < MaxFrames /\ ExplosionFrame(b)

MotionEvent ==
  /\ events < MaxEvents
  /\ Len(explosions) < MaxBursts
  /\ Click(300, 200)

NextMotion == Boot \/ MotionFrame \/ MotionEvent

SpecMotion == InitMotion /\ [][NextMotion]_vars

\* ---- two runs from one seed: both simulators start from the same draws ----
\* The page is up on a desktop; each of the two simulators has been
\* constructed from the random stream in the same state, so that each is a
\* run of initialize and of the constructor's first animate() on one seed.
InitTwin ==
  \E seed \in 0 .. MaxSeed, sz \in { <<1400, 600>>, <<2, 1>> } :
    LET n     == getParticleCount(sz[1], 8)
        first == updateParticles(createParticles(n, seed, sz[1], sz[2]), NoMouse,
                                 sz[1], sz[2])
    IN  /\ innerWidth = sz[1]
        /\ innerHeight = sz[2]
        /\ cores = 8
        /\ reducedMotion = FALSE
        /\ canvasPresent = TRUE
        /\ contextOk = TRUE
        /\ hidden = FALSE
        /\ focused = TRUE
        /\ rng = RandAfter(n, seed)
        /\ canvas = [width |-> sz[1], height |-> sz[2]]
        /\ built = [s \in SimIds |-> TRUE]
        /\ particles = [s \in SimIds |-> first]
        /\ particleCount = [s \in SimIds |-> n]
        /\ mouse = [s \in SimIds |-> NoMouse]
        /\ pauseAnimation = [s \in SimIds |-> <<>>]
        /\ listening = [s \in SimIds |-> TRUE]
        /\ rafQueue = << <<"animate", "app">>, <<"animate", "dom">> >>
        /\ running = Idle
        /\ lines = drawConnections(first)
        /\ explosions = <<>>
        /\ burstFrames = <<>>
        /\ boot = "ready"
        /\ enableParticles = TRUE
        /\ appListeners = TRUE
        /\ clickListener = TRUE
        /\ log = <<>>
        /\ errorFallback = FALSE
        /\ thrown = <<>>
        /\ UiIdle
        /\ lastOp = <<"drawParticles", "dom">>
        /\ prevOp = <<"updateParticles", "dom">>
        /\ pendingDraw = [s \in SimIds |-> 0]
        /\ clock = 0
        /\ events = 0

TwinFrame ==
  \/ \E s \in SimIds : clock < 2 * MaxFrames /\ AnimateUpdate(s)
  \/ \E s \in SimIds : AnimateDraw(s)

\* Both simulators have run the same number of steps: no call is in
\* progress and the next frame callback is that of the first simulator.
SameSteps ==
  /\ running = Idle
  /\ rafQueue # <<>>
  /\ Head(rafQueue) = <<"animate", "app">>

\* Pointer events reach both runs at the same number of steps (the host runs
\* the callbacks of one animation frame back to back).
TwinEvent ==
  \/ events < MaxEvents /\ SameSteps /\ MouseMove(innerWidth \div 2, innerHeight \div 2)
  \/ events < MaxEvents /\ SameSteps /\ MouseLeave

NextTwin == TwinFrame \/ TwinEvent

SpecTwin == InitTwin /\ [][NextTwin]_vars

\* ---- the pulse: frames without events, delivered as long as allowed ----
\* The page is up with the "dom" simulator alone, whose collection is one
\* particle as createParticles makes it from the draws that follow r, at
\* rest so that nothing but its opacity changes.
InitPulse ==
  \E r \in 0 .. PulseSeeds :
    /\ innerWidth = 600
    /\ innerHeight = 400
    /\ cores = 0
    /\ reducedMotion = FALSE
    /\ canvasPresent = TRUE
    /\ contextOk = TRUE
    /\ hidden = FALSE
    /\ focused = TRUE
    /\ rng = RandSkip(85 * r, 8)
    /\ canvas = [width |-> 600, height |-> 400]
    /\ built = [s \in SimIds |-> s = "dom"]
    /\ particles = [s \in SimIds |->
                      IF s = "dom"
                      THEN << [NewParticle(85 * r, 600, 400) EXCEPT !.vx = 0, !.vy = 0] >>
                      ELSE <<>>]
    /\ particleCount = [s \in SimIds |-> IF s = "dom" THEN 1 ELSE 0]
    /\ mouse = [s \in SimIds |-> NoMouse]
    /\ pauseAnimation = [s \in SimIds |-> <<>>]
    /\ listening = [s \in SimIds |-> s = "dom"]
    /\ rafQueue = << <<"animate", "dom">> >>
    /\ running = Idle
    /\ lines = {}
    /\ explosions = <<>>
    /\ burstFrames = <<>>
    /\ boot = "ready"
    /\ enableParticles = FALSE
    /\ appListeners = TRUE
    /\ clickListener = TRUE
    /\ log = <<>>
    /\ errorFallback = FALSE
    /\ thrown = <<>>
    /\ UiIdle
    /\ lastOp = <<"drawParticles", "dom">>
    /\ prevOp = <<"updateParticles", "dom">>
    /\ pendingDraw = [s \in SimIds |-> 0]
    /\ clock = 0
    /\ events = 0

PulseFrame ==
  \/ \E s \in SimIds : clock < PulseFrames /\ AnimateUpdate(s)
  \/ \E s \in SimIds : AnimateDraw(s)

NextPulse == PulseFrame

\* The host keeps delivering animation frames to a visible page.
SpecPulse == InitPulse /\ [][NextPulse]_vars /\ WF_vars(NextPulse)

\* ---- bursts among ambient frames, pointer moves and resizes ----
InitMix ==
  \E seed \in 0 .. MaxSeed : PageLoaded(1400, 600, 2, FALSE, TRUE, TRUE, seed)

MixFrame ==
  \/ \E s \in SimIds : clock < MaxFrames /\ AnimateUpdate(s)
  \/ \E s \in SimIds : AnimateDraw(s)
  \/ \E b \in 1 .. MaxBursts :
       b <= Len(explosions) /\ clock < MaxFrames /\ ExplosionFrame(b)

MixEvent ==
  \/ events < MaxEvents /\ Len(explosions) < MaxBursts /\ Click(700, 300)
  \/ events < MaxEvents /\ MouseMove(700, 300)
  \/ events < MaxEvents /\ Resize(500, 400)

NextMix == Boot \/ MixFrame \/ MixEvent

SpecMix == InitMix /\ [][NextMix]_vars

\* ---- bursts until they are over, frames delivered as long as allowed ----
\* The page is up with one ambient particle, as in the pulse scenario.
InitFade == InitPulse /\ rng = RandSkip(0, 8)

\* Frames are followed while the user may still click or a burst is running,
\* for at most BurstCallbacks callbacks a burst and for the ambient loop.
FadeOpen ==
  /\ clock < (MaxBursts + 1) * BurstCallbacks
  /\ \/ clock <= ClickWindow
     \/ \E b \in 1 .. Len(explosions) : explosions[b] # <<>>

FadeFrame ==
  \/ \E s \in SimIds : FadeOpen /\ AnimateUpdate(s)
  \/ \E s \in SimIds : AnimateDraw(s)
  \/ \E b \in 1 .. MaxBursts :
       b <= Len(explosions) /\ FadeOpen /\ ExplosionFrame(b)

FadeEvent ==
  /\ Len(explosions) < MaxBursts
  /\ clock <= ClickWindow
  /\ Click(300, 200)

NextFade == FadeFrame \/ FadeEvent

\* The host keeps delivering animation frames to a visible page; nothing
\* obliges the user to click.
SpecFade == InitFade /\ [][NextFade]_vars /\ WF_vars(FadeFrame)

\* ---- the tab hidden and shown again ----
\* A desktop page is up: both simulators run, each with one particle, and the
\* frame callbacks of both are scheduled.
InitShow ==
  /\ innerWidth = 1400
  /\ innerHeight = 600
  /\ cores = 8
  /\ reducedMotion = FALSE
  /\ canvasPresent = TRUE
  /\ contextOk = TRUE
  /\ hidden = FALSE
  /\ focused = TRUE
  /\ rng = RandSkip(0, 16)
  /\ canvas = [width |-> 1400, height |-> 600]
  /\ built = [s \in SimIds |-> TRUE]
  /\ particles = [s \in SimIds |->
                    << NewParticle(IF s = "app" THEN 0 ELSE RandSkip(0, 8), 1400, 600) >>]
  /\ particleCount = [s \in SimIds |-> 1]
  /\ mouse = [s \in SimIds |-> NoMouse]
  /\ pauseAnimation = [s \in SimIds |-> <<>>]
  /\ listening = [s \in SimIds |-> TRUE]
  /\ rafQueue = << <<"animate", "app">>, <<"animate", "dom">> >>
  /\ running = Idle
  /\ lines = {}
  /\ explosions = <<>>
  /\ burstFrames = <<>>
  /\ boot = "ready"
  /\ enableParticles = TRUE
  /\ appListeners = TRUE
  /\ clickListener = TRUE
  /\ log = <<>>
  /\ errorFallback = FALSE
  /\ thrown = <<>>
  /\ UiIdle
  /\ lastOp = <<"drawParticles", "dom">>
  /\ prevOp = <<"updateParticles", "dom">>
  /\ pendingDraw = [s \in SimIds |-> 0]
  /\ clock = 0
  /\ events = 0

ShowFrame ==
  \/ \E s \in SimIds : clock < ShowFrames /\ AnimateUpdate(s)
  \/ \E s \in SimIds : AnimateDraw(s)

ShowEvent == events < MaxShows /\ VisibilityChange

NextShow == ShowFrame \/ ShowEvent

\* The host keeps delivering animation frames to a visible page; nothing
\* obliges the user to hide or show the tab.
SpecShow == InitShow /\ [][NextShow]_vars /\ WF_vars(ShowFrame)

\* ---- resizes on a host whose hardware-concurrency hint changes ----
HintValues == {0, 2, StartHint}

HintSizes == { <<900, 600>>, <<1400, 600>> }

InitHint == PageLoaded(1400, 600, StartHint, FALSE, TRUE, TRUE, 0)

HintFrame ==
  \/ \E s \in SimIds : clock < MaxFrames /\ AnimateUpdate(s)
  \/ \E s \in SimIds : AnimateDraw(s)

HintEvent ==
  \/ \E c \in HintValues : events < MaxEvents /\ HintChange(c)
  \/ \E sz \in HintSizes : events < MaxEvents /\ Resize(sz[1], sz[2])

NextHint == Boot \/ HintFrame \/ HintEvent

SpecHint == InitHint /\ [][NextHint]_vars

\* ---- frames among scroll events and setMode calls ----
\* <<window.pageYOffset, document.body.scrollHeight - window.innerHeight>> at
\* a 'scroll' event: a page that cannot scroll, the bottom of a page as high
\* as two viewports, and a page far taller than its body element.
ScrollInputs == { <<0, 0>>, <<600, 600>>, <<2000, 1>> }

Modes == {"calm", "energetic", "upward"}

\* Every velocity of every simulator is a finite number.
AllFinite ==
  \A s \in SimIds : \A i \in 1 .. Len(particles[s]) : particles[s][i].vy # NotFinite

InitScroll == PageLoaded(1400, 600, 2, FALSE, TRUE, TRUE, 0)

\* Frames are followed while every velocity is a number.
ScrollFrame ==
  \/ \E s \in SimIds : clock < MaxFrames /\ AllFinite /\ AnimateUpdate(s)
  \/ \E s \in SimIds : AnimateDraw(s)

ScrollEvent ==
  \/ \E in \in ScrollInputs : events < MaxEvents /\ Scroll(in[1], in[2])
  \/ \E s \in SimIds, mode \in Modes : events < MaxEvents /\ SetMode(s, mode)

NextScroll == Boot \/ ScrollFrame \/ ScrollEvent

SpecScroll == InitScroll /\ [][NextScroll]_vars

\* ---- themes ----
\* Milliseconds between two user events: less than the 50 ms of toggleTheme()
\* and more than its 50 + 300 ms.
Gaps == {20, 400}

\* What localStorage may hold under 'portfolio-theme' when the page starts:
\* nothing, a theme of this page, or another string.
SavedValues == {NULL, <<"dark">>, <<"light">>, <<"blue">>}

\* Time passes between two steps of the page, not twice in a row.
Pause == \E d \in Gaps : lastOp[1] # "wait" /\ Wait(d)

\* The page with the stored theme sv, the system scheme pd and a toggle or not.
ThemePage(sv, pd, tg) ==
  /\ FieldLoaded(1400, 600, 8, TRUE, TRUE, TRUE, 0)
  /\ now = 0
  /\ timers = <<>>
  /\ theme = [ThemeIdle EXCEPT !.stored = sv, !.prefersDark = pd, !.hasToggle = tg]
  /\ page = PageIdle

\* Any stored value, system scheme and page.
InitTheme ==
  \E sv \in SavedValues, pd \in BOOLEAN, tg \in BOOLEAN : ThemePage(sv, pd, tg)

NextTheme ==
  \/ \E c \in CtlIds : ThemeConstruct(c)
  \/ events < MaxKeys /\ KeyToggle
  \/ events < MaxKeys /\ SystemChange
  \/ ThemeTimer
  \/ Pause

SpecTheme == InitTheme /\ [][NextTheme]_vars

\* The theme the toggle scenario starts from.
StartTheme == "dark"

\* The stored theme is StartTheme; the system scheme does not change.
InitToggle == \E pd \in BOOLEAN : ThemePage(<<StartTheme>>, pd, TRUE)

NextToggle ==
  \/ \E c \in CtlIds : ThemeConstruct(c)
  \/ events < MaxKeys /\ KeyToggle
  \/ ThemeTimer
  \/ Pause

SpecToggle == InitToggle /\ [][NextToggle]_vars

\* Nothing is stored when the page starts.
InitSystem == \E pd \in BOOLEAN, tg \in BOOLEAN : ThemePage(NULL, pd, tg)

SpecSystem == InitSystem /\ [][NextTheme]_vars

\* ---- the mobile menu ----
NavEvents == {"hamburger", "outside", "link", "deadlink"}

NavWidths == {500, MobileWidth, 1400}

\* A phone-sized or a desktop-sized window.
InitNav ==
  \E w \in {500, 1400} :
    /\ FieldLoaded(w, 600, 8, TRUE, TRUE, TRUE, 0)
    /\ UiIdle

NextNav ==
  \/ \E c \in CtlIds : NavConstruct(c)
  \/ \E ev \in NavEvents : events < MaxClicks /\ NavClick(ev)
  \/ \E w \in NavWidths : events < MaxClicks /\ NavResize(w)
  \/ NavTimer
  \/ Pause

SpecNav == InitNav /\ [][NextNav]_vars

\* ---- the contact form ----
\* The values of the form at a submission: complete, an empty or a blank
\* message, and nothing filled in.
Filled == [f \in {RequiredFields[k] : k \in 1 .. Len(RequiredFields)} |-> "x"]

FormInputs ==
  { Filled,
    [Filled EXCEPT !["message"] = " "],
    [Filled EXCEPT !["email"] = ""],
    [f \in DOMAIN Filled |-> ""] }

InitForm ==
  /\ FieldLoaded(1400, 600, 8, TRUE, TRUE, TRUE, 0)
  /\ UiIdle

NextForm ==
  \/ \E vals \in FormInputs : events < MaxSubmits /\ Submit(vals)
  \/ \E outcome \in {"ok", "notok", "rejected"} : FetchSettles(outcome)
  \/ \E outcome \in {"data", "rejected"} : JsonSettles(outcome)

SpecForm == InitForm /\ [][NextForm]_vars

\* ---- the typing animation ----
\* Texts of the .typing-text element: empty, one character, one with a
\* repeated character.
TypingTexts == { <<>>, <<"a">>, <<"a", "b", "a">> }

\* The page with its .typing-text element: its text, data-speed, data-delay.
InitTyping ==
  \E txt \in TypingTexts, sp \in {20, 50}, dl \in {0, 100} :
    /\ FieldLoaded(1400, 600, 8, TRUE, TRUE, TRUE, 0)
    /\ now = 0
    /\ timers = <<>>
    /\ theme = ThemeIdle
    /\ page = [PageIdle EXCEPT !.typing.original = txt, !.typing.content = txt,
                               !.typing.speed = sp, !.typing.delay = dl]

\* The DOMContentLoaded listeners construct the controllers one after the
\* other, in the order of the scripts; PortfolioApp constructs its own only
\* with config.enableAnimations.
NextTyping ==
  \/ \E c \in CtlIds : lastOp[1] \in {"load", "new AnimationController"} /\ AnimConstruct(c)
  \/ TypingTimer

SpecTyping == InitTyping /\ [][NextTyping]_vars

\* ---- a debounced function ----
\* Milliseconds between two calls: within the wait and beyond it.
DebounceGaps == {100, 300}

\* The arguments of a call: the width of the window at a 'resize'.
DebounceArgs == {500, 1400}

InitDebounce ==
  /\ FieldLoaded(1400, 600, 8, TRUE, TRUE, TRUE, 0)
  /\ UiIdle

NextDebounce ==
  \/ \E args \in DebounceArgs : events < MaxCalls /\ DebouncedCall(args)
  \/ DebounceTimer
  \/ \E d \in DebounceGaps : lastOp[1] # "wait" /\ Wait(d)

SpecDebounce == InitDebounce /\ [][NextDebounce]_vars

\* ---- a throttled function ----
\* Milliseconds between two calls: half the limit, so that a call can fall on
\* the very time the timer is due, and more than the limit.
ThrottleGaps == {5, 15}

InitThrottle ==
  /\ FieldLoaded(1400, 600, 8, TRUE, TRUE, TRUE, 0)
  /\ UiIdle

NextThrottle ==
  \/ events < MaxCalls /\ ThrottledCall
  \/ ThrottleTimer
  \/ \E d \in ThrottleGaps : lastOp[1] # "wait" /\ Wait(d)

SpecThrottle == InitThrottle /\ [][NextThrottle]_vars

\* ---- drawConnections on chosen collections ----
\* A particle at rest at the pixel (x, y).
ParticleAt(x, y) ==
  [ x |-> Px(x), y |-> Px(y), vx |-> 0, vy |-> 0, size |-> Scale, color |-> 0,
    opacity |-> Dec(5, 10), pulse |-> Dec(1, 100) ]

ConnectionPoints == {0, 60, 72, 96, 120, 121} \X {0, 72, 96}

\* A page that is up with one simulator whose collection is two chosen
\* particles, and nothing drawn yet.
InitConnections ==
  \E a \in ConnectionPoints, b \in ConnectionPoints :
    /\ innerWidth = 1400
    /\ innerHeight = 600
    /\ cores = 8
    /\ reducedMotion = FALSE
    /\ canvasPresent = TRUE
    /\ contextOk = TRUE
    /\ hidden = FALSE
    /\ focused = TRUE
    /\ rng = 0
    /\ canvas = [width |-> 1400, height |-> 600]
    /\ built = [s \in SimIds |-> s = "dom"]
    /\ particles = [s \in SimIds |->
                      IF s = "dom" THEN <<ParticleAt(a[1], a[2]), ParticleAt(b[1], b[2])>>
                      ELSE <<>>]
    /\ particleCount = [s \in SimIds |-> IF s = "dom" THEN 2 ELSE 0]
    /\ mouse = [s \in SimIds |-> NoMouse]
    /\ pauseAnimation = [s \in SimIds |-> <<>>]
    /\ listening = [s \in SimIds |-> s = "dom"]
    /\ rafQueue = <<>>
    /\ running = [pc |-> "draw", sim |-> "dom", ctor |-> FALSE]
    /\ lines = {}
    /\ explosions = <<>>
    /\ burstFrames = <<>>
    /\ boot = "ready"
    /\ enableParticles = FALSE
    /\ appListeners = TRUE
    /\ clickListener = TRUE
    /\ log = <<>>
    /\ errorFallback = FALSE
    /\ thrown = <<>>
    /\ UiIdle
    /\ lastOp = <<"updateParticles", "dom">>
    /\ prevOp = <<"load", "none">>
    /\ pendingDraw = [s \in SimIds |-> IF s = "dom" THEN 1 ELSE 0]
    /\ clock = 0
    /\ events = 0

NextConnections == AnimateDraw("dom")

SpecConnections == InitConnections /\ [][NextConnections]_vars

\* ----------------------------------------------------------------- claims
\* The ambient particles of every simulator that exists.
Ambient == { <<s, i>> \in SimIds \X (1 .. HighCount) : built[s] /\ i <= Len(particles[s]) }

\* A particle that the pointer of its simulator attracts.
Attracted(s, i) ==
  /\ mouse[s].x # NULL
  /\ mouse[s].y # NULL
  /\ InRadius(Px(mouse[s].x[1]) - particles[s][i].x, Px(mouse[s].y[1]) - particles[s][i].y)

\* C1: under frame steps interleaved with pointer moves that keep the pointer
\* within the interaction radius of a particle, every ambient particle has
\* |vx| <= 2 and |vy| <= 2 after every step.
C1_VelocityClamped ==
  \A a \in Ambient :
    /\ Abs(particles[a[1]][a[2]].vx) <= Px(maxVel)
    /\ Abs(particles[a[1]][a[2]].vy) <= Px(maxVel)

\* C1 witness: a step has just left an attracted particle at the cap times the
\* friction factor, which only a velocity cut down to the cap produces.
C1_Witness ==
  /\ lastOp = <<"updateParticles", "dom">>
  /\ Attracted("dom", 1)
  /\ particles["dom"][1].vx = Friction(Px(maxVel))

C3_OpacityInBounds ==
  \A a \in Ambient :
    /\ Dec(2, 10) <= particles[a[1]][a[2]].opacity
    /\ particles[a[1]][a[2]].opacity <= Dec(8, 10)

\* C3 amended: every ambient particle's opacity is within one pulse increment
\* of the interval: 0.2 - |pulse| <= opacity <= 0.8 + |pulse|, and |pulse| is
\* below 0.03.
C3_OpacityWithinOnePulse ==
  \A a \in Ambient :
    LET p == particles[a[1]][a[2]]
    IN  /\ Dec(2, 10) - Abs(p.pulse) <= p.opacity
        /\ p.opacity <= Dec(8, 10) + Abs(p.pulse)
        /\ Abs(p.pulse) < Dec(3, 100)

\* C3 witness: steps have taken one particle above 0.8 and another below 0.2.
C3_Witness ==
  /\ lastOp[1] = "updateParticles"
  /\ \E a \in Ambient : particles[a[1]][a[2]].opacity > Dec(8, 10)
  /\ \E a \in Ambient : particles[a[1]][a[2]].opacity < Dec(2, 10)

\* C5: every simulator holds exactly the tier count of the current viewport
\* (30 when the width is below 768 or fewer than 4 cores are reported, 50 when
\* 768 <= width < 1024, 80 otherwise), and particles.length = particleCount.
C5_TierCount ==
  \A s \in SimIds :
    built[s] =>
      /\ Len(particles[s]) = particleCount[s]
      /\ (innerWidth < 768 \/ (cores > 0 /\ cores < 4)) => particleCount[s] = 30
      /\ (innerWidth >= 768 /\ innerWidth < 1024 /\ ~(cores > 0 /\ cores < 4))
            => particleCount[s] = 50
      /\ (innerWidth >= 1024 /\ ~(cores > 0 /\ cores < 4)) => particleCount[s] = 80

\* C5 witness: after two resizes and a step a simulator holds the high tier.
C5_Witness ==
  /\ events = 2
  /\ clock > 0
  /\ prevOp[1] = "resize"
  /\ \E s \in SimIds : built[s] /\ Len(particles[s]) = 80

\* C4 as stated: an explosion particle with decay d is removed after exactly
\* ceil(1 / d) frames of its burst, so a particle still in the collection has
\* seen fewer frames than that, whatever was removed in the same frame.
C4_RemovedOnTime ==
  \A b \in 1 .. Len(explosions) :
    \A k \in 1 .. Len(explosions[b]) :
      burstFrames[b] < CeilDiv(Scale, explosions[b][k].decay)

\* The pairs of particles of the simulator that drew last, each particle on a
\* whole pixel, with the square of their distance in pixels.
DrawnPairs ==
  IF lastOp[1] # "drawParticles" THEN {}
  ELSE LET ps == particles[lastOp[2]]
       IN  { <<i, j, ((ps[i].x - ps[j].x) \div Scale) * ((ps[i].x - ps[j].x) \div Scale)
                   + ((ps[i].y - ps[j].y) \div Scale) * ((ps[i].y - ps[j].y) \div Scale)>> :
             <<i, j>> \in { ij \in (1 .. Len(ps)) \X (1 .. Len(ps)) :
                              /\ ij[1] < ij[2]
                              /\ \A c \in {ps[ij[1]].x, ps[ij[1]].y, ps[ij[2]].x, ps[ij[2]].y} :
                                   c % Scale = 0 } }

\* The line drawn between the particles i and j, if any.
LinesOf(i, j) == { l \in lines : l.i = i /\ l.j = j }

\* C6 as stated: between two particles exactly 120 px apart a line is drawn
\* with opacity 0, and between two particles at distance 0 a line is drawn
\* with opacity 0.2.
C6_LineAtThreshold ==
  \A d \in DrawnPairs :
    /\ d[3] = maxDistance * maxDistance =>
         \E l \in LinesOf(d[1], d[2]) : l.opacity = 0
    /\ d[3] = 0 =>
         \E l \in LinesOf(d[1], d[2]) : l.opacity = Dec(2, 10)

\* C6 amended: a line is drawn exactly between the particles less than 120 px
\* apart, so two particles exactly 120 px apart get no line; two particles at
\* distance 0 get a line with opacity 0.2, and no line is more opaque.
C6_NoLineAtThreshold ==
  \A d \in DrawnPairs :
    /\ d[3] < maxDistance * maxDistance <=> LinesOf(d[1], d[2]) # {}
    /\ d[3] = maxDistance * maxDistance => LinesOf(d[1], d[2]) = {}
    /\ d[3] = 0 => \E l \in LinesOf(d[1], d[2]) : l.opacity = Dec(2, 10)
    /\ \A l \in LinesOf(d[1], d[2]) : 0 <= l.opacity /\ l.opacity <= Dec(2, 10)

\* C6 witness: a frame has drawn with two particles exactly 120 px apart,
\* not on one axis.
C6_Witness ==
  \E d \in DrawnPairs :
    /\ d[3] = maxDistance * maxDistance
    /\ particles[lastOp[2]][d[1]].x # particles[lastOp[2]][d[2]].x
    /\ particles[lastOp[2]][d[1]].y # particles[lastOp[2]][d[2]].y

\* Whether simulator s is to be at rest: its own listener has recorded a
\* hidden document, or the application has asked it to pause on a blur.
Stopped(s) ==
  \/ pauseAnimation[s] = <<TRUE>>
  \/ s = "app" /\ appListeners /\ listening["app"] /\ ~focused

\* C7 as stated: while a simulator is stopped no frame of it performs
\* updateParticles or drawParticles, and handling the event that stops it
\* raises no error.
C7_NoFrameWhileStopped ==
  /\ \A s \in SimIds :
       lastOp \in {<<"updateParticles", s>>, <<"drawParticles", s>>} => ~Stopped(s)
  /\ \A k \in 1 .. Len(thrown) : thrown[k] # "pause is not a function"

\* The frame callbacks of ambient loops that are scheduled.
ScheduledLoops == { k \in 1 .. Len(rafQueue) : rafQueue[k][1] = "animate" }

\* C8 as stated: whichever start-up paths run, at most one simulator is
\* constructed and at most one frame loop is scheduled.
C8_SingleSimulator ==
  /\ Cardinality({ s \in SimIds : built[s] }) <= 1
  /\ Cardinality(ScheduledLoops) <= 1

\* C9 as stated: without a usable 2-D drawing surface no frame is ever
\* scheduled, the failure shows as exactly one logged diagnostic, and no
\* error is shown to the user.
C9_SilentSkip ==
  (~canvasPresent \/ ~contextOk) =>
    /\ rafQueue = <<>>
    /\ ~errorFallback
    /\ Len(log) <= 1
    /\ boot = "ready" => Len(log) = 1

\* C10: a frame's updateParticles is followed at once by the drawParticles of
\* the same simulator, with no other callback in between, so the two
\* alternate strictly and no update is left without its draw.
C10_FrameAtomic ==
  /\ \A s \in SimIds : pendingDraw[s] <= 1
  /\ lastOp[1] \in {"drawParticles", "drawParticles threw"} =>
       prevOp = <<"updateParticles", lastOp[2]>>
  /\ prevOp[1] = "updateParticles" =>
       /\ lastOp[1] \in {"drawParticles", "drawParticles threw"}
       /\ lastOp[2] = prevOp[2]
  /\ lastOp[1] = "updateParticles" =>
       /\ running = [pc |-> "draw", sim |-> lastOp[2], ctor |-> running.ctor]
       /\ pendingDraw[lastOp[2]] = 1

\* C10 witness: a frame callback has drawn right after its update, after an
\* event was handled between two frames.
C10_Witness ==
  /\ lastOp = <<"drawParticles", "dom">>
  /\ prevOp = <<"updateParticles", "dom">>
  /\ clock >= 2
  /\ events >= 1

\* C11: when the reduced-motion preference is set at start-up, neither
\* start-up path constructs a simulator, no frame of it is ever scheduled or
\* in progress, and a click starts no explosion burst.
C11_ReducedMotionOff ==
  reducedMotion =>
    /\ \A s \in SimIds : ~built[s] /\ ~listening[s] /\ particles[s] = <<>>
    /\ rafQueue = <<>>
    /\ running = Idle
    /\ explosions = <<>>
    /\ lines = {}
    /\ clock = 0

\* C11 witness: with the preference set, on a desktop that would otherwise
\* run both start-up paths, the page is up and a click has been handled.
C11_Witness ==
  /\ reducedMotion
  /\ innerWidth >= TabletWidth
  /\ cores >= LowEndCores
  /\ boot = "ready"
  /\ lastOp[1] = "click"

\* A particle as createParticles makes it for a w x h canvas.
Fresh(p, w, h) ==
  /\ 0 <= p.x /\ p.x < Px(w)
  /\ 0 <= p.y /\ p.y < Px(h)
  /\ Abs(p.vx) <= Dec(25, 100)
  /\ Abs(p.vy) <= Dec(25, 100)
  /\ Dec(3, 10) <= p.opacity /\ p.opacity < Dec(8, 10)
  /\ Dec(1, 100) <= p.pulse /\ p.pulse < Dec(3, 100)

\* C12: a resize is one transition: right after it the canvas has the size
\* of the new viewport and every simulator holds a whole new collection made
\* for that size, and at every moment the canvas of a running simulator has
\* the size of the viewport and every particle lies within it, so no frame
\* meets an old particle on the new surface.
C12_ResizeAtomic ==
  /\ \A s \in SimIds :
       listening[s] =>
         /\ canvas = [width |-> innerWidth, height |-> innerHeight]
         /\ \A i \in 1 .. Len(particles[s]) :
              /\ particles[s][i].x \in 0 .. Px(innerWidth)
              /\ particles[s][i].y \in 0 .. Px(innerHeight)
  /\ lastOp[1] = "resize" =>
       \A s \in SimIds :
         listening[s] =>
           /\ Len(particles[s]) = getParticleCount(innerWidth, cores)
           /\ \A i \in 1 .. Len(particles[s]) :
                Fresh(particles[s][i], innerWidth, innerHeight)

\* C12 witness: the viewport has shrunk from 900 to 768 pixels and both
\* simulators have been resized; a frame has stepped since.
C12_Witness ==
  /\ cores = 8
  /\ events = 1
  /\ canvas.width = 768
  /\ prevOp[1] = "resize"
  /\ lastOp[1] = "updateParticles"
  /\ clock >= 2

\* C13: a pointer-move step only stores the latest coordinates in the pointer
\* state of the listening simulators and a pointer-leave step only clears it:
\* neither changes a particle, the particle count or the canvas, and neither
\* runs, schedules or cancels a step or a render.
C13_PointerOnly ==
  [][ lastOp'[1] \in {"mousemove", "mouseleave"} =>
        /\ UNCHANGED <<particles, particleCount, canvas, lines, explosions,
                       burstFrames, rafQueue, running, pendingDraw, clock, rng>>
        /\ \A s \in SimIds :
             IF ~listening[s] THEN mouse'[s] = mouse[s]
             ELSE IF lastOp'[1] = "mouseleave" THEN mouse'[s] = NoMouse
             ELSE mouse'[s].x # NULL /\ mouse'[s].y # NULL ]_vars

\* C13 witness: after some frames a pointer move has just put the pointer
\* within the interaction radius of a particle, which has not moved yet.
C13_Witness ==
  /\ lastOp[1] = "mousemove"
  /\ clock >= 1
  /\ \E a \in Ambient : Attracted(a[1], a[2])

NearPointer(s, x, y) ==
  /\ mouse[s].x # NULL
  /\ mouse[s].y # NULL
  /\ Abs(Px(mouse[s].x[1]) - x) < Px(100)
  /\ Abs(Px(mouse[s].y[1]) - y) < Px(100)
  /\ (Px(mouse[s].x[1]) - x) * (Px(mouse[s].x[1]) - x)
       + (Px(mouse[s].y[1]) - y) * (Px(mouse[s].y[1]) - y) < Px(100) * Px(100)

\* C15: in a step of simulator s, a particle that the step leaves at 100 px
\* or more from the pointer, or any particle when the pointer is absent, has
\* its velocity multiplied by 0.99 and nothing else; a particle strictly
\* within 100 px is pulled toward the pointer, never away, and friction
\* comes after the clamp, so its speed ends at most at 0.99 * 2 per axis.
C15_AttractionOnlyNear ==
  [][ \A s \in SimIds :
        lastOp' = <<"updateParticles", s>> =>
          \A i \in 1 .. Len(particles[s]) :
            LET p == particles[s][i]
                q == particles'[s][i]
            IN  IF NearPointer(s, q.x, q.y)
                THEN /\ Abs(q.vx) <= (99 * Px(2)) \div 100
                     /\ Abs(q.vy) <= (99 * Px(2)) \div 100
                     /\ Px(mouse[s].x[1]) >= q.x => q.vx >= Min(RoundDiv(99 * p.vx, 100), (99 * Px(2)) \div 100)
                     /\ Px(mouse[s].x[1]) <= q.x => q.vx <= Max(RoundDiv(99 * p.vx, 100), -((99 * Px(2)) \div 100))
                     /\ Px(mouse[s].y[1]) >= q.y => q.vy >= Min(RoundDiv(99 * p.vy, 100), (99 * Px(2)) \div 100)
                     /\ Px(mouse[s].y[1]) <= q.y => q.vy <= Max(RoundDiv(99 * p.vy, 100), -((99 * Px(2)) \div 100))
                ELSE /\ q.vx = RoundDiv(99 * p.vx, 100)
                     /\ q.vy = RoundDiv(99 * p.vy, 100) ]_vars

\* C15 witness: a step has run with the pointer present, strictly within
\* 100 px of one particle of the simulator and not of another.
C15_Witness ==
  \E s \in SimIds :
    /\ lastOp = <<"updateParticles", s>>
    /\ clock >= 1
    /\ \E i \in 1 .. Len(particles[s]) : NearPointer(s, particles[s][i].x, particles[s][i].y)
    /\ \E j \in 1 .. Len(particles[s]) : ~NearPointer(s, particles[s][j].x, particles[s][j].y)

\* The last step raised the opacity of p: the delta is positive and was not
\* just flipped, or it is negative because the step took p above 0.8.
Rose(p) ==
  \/ p.pulse > 0 /\ p.opacity >= Dec(2, 10)
  \/ p.pulse < 0 /\ p.opacity > Dec(8, 10)

\* The last step lowered the opacity of p.
Fell(p) ==
  \/ p.pulse < 0 /\ p.opacity <= Dec(8, 10)
  \/ p.pulse > 0 /\ p.opacity < Dec(2, 10)

\* The particles of the pulse scenario, which runs the "dom" simulator only.
PulseIds == {1}

\* A step of the "dom" simulator has just raised the opacity of particle i.
RoseAt(i) ==
  /\ lastOp = <<"updateParticles", "dom">>
  /\ i <= Len(particles["dom"])
  /\ Rose(particles["dom"][i])

\* A step of the "dom" simulator has just lowered the opacity of particle i.
FellAt(i) ==
  /\ lastOp = <<"updateParticles", "dom">>
  /\ i <= Len(particles["dom"])
  /\ Fell(particles["dom"][i])

\* C16: the opacity delta changes sign only in a step that takes the opacity
\* out of [0.2, 0.8]; the step after that brings the opacity back into the
\* interval and keeps the sign; and as long as frames are delivered a
\* particle whose opacity went down goes up again within 65 frames, and one
\* whose opacity went up goes down again.
C16_NeverStuck ==
  /\ [][ \A s \in SimIds :
           lastOp' = <<"updateParticles", s>> =>
             \A i \in 1 .. Len(particles[s]) :
               LET p == particles[s][i]
                   q == particles'[s][i]
               IN  /\ q.opacity # p.opacity
                   /\ q.pulse # p.pulse =>
                        /\ q.opacity > Dec(8, 10) \/ q.opacity < Dec(2, 10)
                        /\ q.pulse = -p.pulse
                   /\ (p.opacity > Dec(8, 10) \/ p.opacity < Dec(2, 10)) =>
                        /\ q.pulse = p.pulse
                        /\ Dec(2, 10) <= q.opacity /\ q.opacity <= Dec(8, 10) ]_vars
  /\ \A i \in PulseIds :
       (clock <= PulseFrames - PulseWindow /\ FellAt(i)) ~> RoseAt(i)
  /\ \A i \in PulseIds :
       (clock <= PulseFrames - PulseWindow /\ RoseAt(i)) ~> FellAt(i)

\* C16 witness: late in the run a step has just taken the particle above 0.8
\* and turned it around, after it had been below 0.2 or will go there.
C16_Witness ==
  /\ lastOp = <<"updateParticles", "dom">>
  /\ clock >= PulseWindow
  /\ particles["dom"][1].opacity > Dec(8, 10)
  /\ particles["dom"][1].pulse < 0

\* Whether two particles are strictly less than 120 px apart.
Below120(p, q) ==
  /\ Abs(p.x - q.x) < Px(120)
  /\ Abs(p.y - q.y) < Px(120)
  /\ (p.x - q.x) * (p.x - q.x) < Px(120) * Px(120) - (p.y - q.y) * (p.y - q.y)

\* The unordered pairs of distinct particles of ps less than 120 px apart,
\* each as <<i, j>> with i < j.
ClosePairs(ps) ==
  { ij \in (1 .. Len(ps)) \X (1 .. Len(ps)) :
      ij[1] < ij[2] /\ Below120(ps[ij[1]], ps[ij[2]]) }

\* C17: a render draws exactly one line for every unordered pair of distinct
\* particles less than 120 px apart and no other line: none for a pair at
\* 120 px or more, none for a pair in the other order, none from a particle
\* to itself.
C17_OneLinePerClosePair ==
  lastOp[1] = "drawParticles" =>
    /\ { <<l.i, l.j>> : l \in lines } = ClosePairs(particles[lastOp[2]])
    /\ Cardinality(lines) = Cardinality(ClosePairs(particles[lastOp[2]]))

\* C17 witness: a frame callback has drawn a collection of 50 particles in
\* which some pairs are less than 120 px apart and others are not.
C17_Witness ==
  /\ lastOp[1] = "drawParticles"
  /\ clock >= 1
  /\ Len(particles[lastOp[2]]) = MidCount
  /\ Cardinality(lines) >= 3
  /\ \E i \in 2 .. MidCount : ~Below120(particles[lastOp[2]][1], particles[lastOp[2]][i])

\* C18: a click and an explosion frame leave the ambient particles, the
\* particle count, the pointer and the canvas as they are; a burst has exactly
\* 15 particles when createExplosion returns; an explosion frame advances its
\* own burst only; and no other step (ambient step or render, resize, pointer
\* move) changes any burst.
C18_BurstIndependent ==
  [][ /\ lastOp'[1] \in {"click", "animateExplosion"} =>
           UNCHANGED <<particles, particleCount, mouse, canvas, lines, pendingDraw>>
      /\ lastOp'[1] \notin {"click", "animateExplosion"} =>
           UNCHANGED <<explosions, burstFrames>>
      /\ lastOp'[1] = "click" =>
           \/ UNCHANGED <<explosions, burstFrames>>
           \/ /\ Len(explosions') = Len(explosions) + 1
              /\ \A b \in 1 .. Len(explosions) : explosions'[b] = explosions[b]
              /\ Len(explosions'[Len(explosions')]) = 15
      /\ lastOp'[1] = "animateExplosion" =>
           /\ Len(explosions') = Len(explosions)
           /\ Cardinality({ b \in 1 .. Len(explosions) :
                              explosions'[b] # explosions[b] }) = 1 ]_vars

\* C18 witness: a burst of 15 particles exists, the viewport has been resized
\* since, and an ambient step has just run with the pointer present.
C18_Witness ==
  /\ lastOp[1] = "updateParticles"
  /\ Len(explosions) >= 1
  /\ Len(explosions[1]) = 15
  /\ innerWidth = 500
  /\ events >= 2
  /\ burstFrames[1] >= 2

\* Burst b is over: its collection is empty and no frame callback of it is
\* scheduled.
BurstOver(b) ==
  /\ b <= Len(explosions)
  /\ explosions[b] = <<>>
  /\ \A k \in 1 .. Len(rafQueue) : rafQueue[k] # <<"explosion", b>>

\* C19: as long as frames are delivered every burst that was started is
\* eventually over, whether or not another burst runs at the same time; a
\* burst whose collection is empty has no callback scheduled, and it stays
\* over.
C19_BurstTerminates ==
  /\ \A b \in 1 .. MaxBursts : (b <= Len(explosions)) ~> BurstOver(b)
  /\ [][ \A b \in 1 .. Len(explosions) :
           /\ BurstOver(b) => explosions'[b] = <<>>
           /\ explosions'[b] = <<>> =>
                \A k \in 1 .. Len(rafQueue') : rafQueue'[k] # <<"explosion", b>> ]_vars

\* C19 witness: two bursts were running at the same time and both are over.
C19_Witness ==
  /\ Len(explosions) = 2
  /\ BurstOver(1)
  /\ BurstOver(2)
  /\ burstFrames[2] > 30

\* ---- C20 ----
\* The frame callbacks of simulator s waiting in the host's queue.
PendingFrames(s) ==
  Cardinality({k \in 1 .. Len(rafQueue) : rafQueue[k] = <<"animate", s>>})

\* The tab has just been shown again.
ShownAgain == lastOp = <<"visibilitychange", "none">> /\ ~hidden

\* Simulator s has just run a step and then a render.
SteppedAndRendered(s) ==
  /\ lastOp = <<"drawParticles", s>>
  /\ prevOp = <<"updateParticles", s>>

\* C20: once the tab is visible again, every simulator runs a step followed
\* by a render (unless the tab is hidden again first), and whatever the number
\* of hide/show cycles each simulator has exactly one frame callback pending
\* between its frames, none while its own callback runs.
C20_FramesResume ==
  /\ \A s \in SimIds :
       (ShownAgain /\ clock + 2 <= ShowFrames) ~> (SteppedAndRendered(s) \/ hidden)
  /\ [](\A s \in SimIds :
          listening[s] => PendingFrames(s) = (IF running.sim = s THEN 0 ELSE 1))

\* C20 witness: after two hide/show cycles a step and a render have run and
\* one callback is pending for each simulator.
C20_Witness ==
  /\ events = 4
  /\ ~hidden
  /\ SteppedAndRendered("dom")
  /\ PendingFrames("app") = 1
  /\ PendingFrames("dom") = 1

\* ---- C21 ----
\* C21: the particle count that a resize gives every simulator is the tier of
\* the new viewport width and of the hardware-concurrency hint the page started
\* with, whatever the host reports at the time of the resize.
C21_HintReadOnce ==
  [][ lastOp' = <<"resize", "none">> =>
        \A s \in SimIds :
          listening'[s] => particleCount'[s] = getParticleCount(innerWidth', StartHint) ]_vars

\* ---- C22 ----
\* C22: whatever scroll events and setMode calls come between the frames,
\* every velocity component of every ambient particle is a finite number of
\* absolute value at most maxVel.
C22_VelocityBounded ==
  \A s \in SimIds : \A i \in 1 .. Len(particles[s]) :
    LET p == particles[s][i]
    IN  /\ p.vx # NotFinite /\ Abs(p.vx) <= Px(maxVel)
        /\ p.vy # NotFinite /\ Abs(p.vy) <= Px(maxVel)

\* ---- C23 ----
\* C23: once every timer of n toggleTheme() calls has run, the current theme
\* of every controller is the starting theme for an even n and the opposite
\* theme for an odd n, however close in time the calls were.
C23_TogglesFlipOnce ==
  (ThemeUp /\ timers = <<>>) =>
    \A c \in CtlIds :
      theme.currentTheme[c] =
        (IF theme.keys % 2 = 0 THEN StartTheme ELSE Opposite(StartTheme))

\* ---- C24 ----
\* C24: on a page that started with no stored theme, a change of the system
\* colour scheme makes the new system theme the current theme of every
\* controller as long as the user has not toggled, and changes nothing once
\* the user has.
C24_SystemThemeFollowed ==
  [][ lastOp' = <<"prefers-color-scheme", "none">> =>
        \A c \in CtlIds :
          theme'.currentTheme[c] =
            (IF theme.keys = 0 THEN SystemTheme(theme') ELSE theme.currentTheme[c]) ]_vars

\* ---- C25 ----
\* C25: once the controllers are constructed, the current theme of each is
\* 'dark' or 'light', document.body carries the class of that theme and of no
\* other, and 'portfolio-theme' holds that theme, whatever was stored before
\* the page started.
C25_ThemeConsistent ==
  ThemeUp =>
    \A c \in CtlIds :
      /\ theme.currentTheme[c] \in ThemeNames
      /\ theme.classes = {theme.currentTheme[c]}
      /\ theme.stored = <<theme.currentTheme[c]>>

\* ---- C26 ----
\* The menu is shown open: hamburger and menu are 'active' and the body does
\* not scroll.
ShownOpen ==
  /\ "active" \in page.nav.hamburger
  /\ "active" \in page.nav.navMenu
  /\ page.nav.overflow = "hidden"

\* The menu is shown closed: neither is 'active' and the body scrolls.
ShownClosed ==
  /\ "active" \notin page.nav.hamburger
  /\ "active" \notin page.nav.navMenu
  /\ page.nav.overflow # "hidden"

C27_ButtonReenabled ==
  /\ [](page.form.disabled <=> page.form.pc # "idle")
  /\ [][ \A way \in {"blank", "ok", "notok", "rejected"} :
           (way \in page'.form.ended \ page.form.ended) =>
             /\ ~page'.form.disabled
             /\ way = "blank" => (page'.form.requests = page.form.requests
                                  /\ ~page.form.disabled) ]_vars

\* C27 witness: the handler has ended in each of its four ways and the button
\* is enabled.
C27_Witness ==
  /\ page.form.ended = {"blank", "ok", "notok", "rejected"}
  /\ page.form.pc = "idle"
  /\ ~page.form.disabled
  /\ page.form.requests = 3

\* ---- C28 ----
\* The typing animation has come to rest: a controller exists and no timer
\* is left.
TypingOver ==
  /\ \E c \in CtlIds : page.typing.state[c] = "ready"
  /\ timers = <<>>

\* seq is an initial part of txt.
IsPrefix(seq, txt) ==
  /\ Len(seq) <= Len(txt)
  /\ \A k \in 1 .. Len(seq) : seq[k] = txt[k]

\* C28: the element never holds anything but an initial part of its original
\* text; when the timers have run out it holds the original text of length n,
\* the controller that typed it has made n + 1 calls of typing(), and the
\* cursor of the element has been set blinking exactly once, with one
\* AnimationController on the page or with two.
C28_TypedOnce ==
  /\ (\E c \in CtlIds : page.typing.state[c] = "ready") =>
       IsPrefix(page.typing.content, page.typing.original)
  /\ TypingOver =>
       /\ page.typing.content = page.typing.original
       /\ \E c \in CtlIds : /\ page.typing.text[c] = page.typing.original
                             /\ page.typing.ticks[c] = Len(page.typing.original) + 1
       /\ page.typing.intervals = 1

\* ---- C29 ----
\* The timers of the debounced function that are pending.
PendingLater == {i \in 1 .. Len(timers) : timers[i].fn = "later"}

\* C29: at most one timer of the debounced function is pending; func is
\* invoked only when wait has passed since the latest call, and with the
\* arguments of that call; and every burst of calls, each less than wait
\* after the one before, has led to exactly one invocation once its timer has
\* run.
C29_Debounced ==
  /\ [](/\ Cardinality(PendingLater) <= 1
        /\ Len(page.debounce.invoked) <= page.debounce.bursts
        /\ PendingLater = {} => Len(page.debounce.invoked) = page.debounce.bursts)
  /\ [][ page'.debounce.invoked # page.debounce.invoked =>
           /\ now' >= page.debounce.lastCall + DebounceWait
           /\ page'.debounce.invoked =
                Append(page.debounce.invoked, page.debounce.lastArgs) ]_vars

\* C29 witness: a burst of three calls, 100 ms apart, has led to
\* one invocation, with the arguments of the last call.
C29_Witness ==
  /\ page.debounce.calls = 3
  /\ page.debounce.bursts = 1
  /\ PendingLater = {}
  /\ page.debounce.invoked = <<500>>
  /\ now >= 200 + DebounceWait

\* ---- C30 ----
\* C30: a call of the throttled function invokes func at once if no limit
\* timer of an earlier invocation is pending, the first call in particular,
\* and is dropped if one is; the expiry of a timer invokes nothing; and two
\* invocations of func are never less than limit apart.
C30_Throttled ==
  /\ [](\A c \in CtlIds :
         LET inv == page.throttle.invoked[c]
         IN  \A k \in 1 .. Len(inv) - 1 : inv[k + 1] - inv[k] >= ThrottleLimit)
  /\ [][ \A c \in CtlIds :
           LET inv == page.throttle.invoked[c]
           IN  /\ (lastOp' = <<"throttled", "none">> /\ ~page.throttle.inThrottle[c]) =>
                    page'.throttle.invoked[c] = Append(inv, now)
               /\ (lastOp' = <<"throttled", "none">> /\ page.throttle.inThrottle[c]) =>
                    /\ page'.throttle.invoked[c] = inv
                    /\ \A i \in 1 .. Len(timers') :
                         timers'[i].c = c => \E j \in 1 .. Len(timers) : timers[j] = timers'[i]
               /\ lastOp'[1] = "release" => page'.throttle.invoked[c] = inv ]_vars

\* C30 witness: of five calls the first was invoked at once, calls within
\* the limit were dropped, and a later one was invoked again.
C30_Witness ==
  /\ page.throttle.calls = 5
  /\ Len(page.throttle.invoked["dom"]) = 2
  /\ page.throttle.invoked["dom"][1] = 0
  /\ page.throttle.invoked["dom"][2] = ThrottleLimit

=============================================================================
